---- MODULE Spec2Model ----
(***************************************************************************)
(* Session-scoped conversational retrieval loop of the news backend:       *)
(* the chat_sessions collection (services/session_service.py), the shared  *)
(* news agent with its conversation memory (services/newsagentservice.py), *)
(* the session title generator (services/session_title_service.py) and the *)
(* session routes that compose them (api_routes/newsroutes.py).            *)
(*                                                                         *)
(* Strings are TLA+ strings; Len, SubSeq and \o act on them character by   *)
(* character, as Python's len, slicing and + do.  The collection is a      *)
(* sequence of documents in insertion order; find_one / update_one /       *)
(* delete_one act on the first document that matches the query.            *)
(* Message timestamps are not modelled (no route reads them back into a    *)
(* decision); created_at is a logical clock that ticks at each insert.     *)
(***************************************************************************)
EXTENDS Naturals, Sequences, FiniteSets, TLC

VARIABLES
    chat_sessions,    \* mongo.db.chat_sessions: sequence of session documents
    nextId,           \* how many uuid4() values have been drawn so far
    news_agent,       \* module global news_agent: "None" or "NewsAgentService"
    title_generator,  \* module global title_generator: "None" or "SessionTitleGenerator"
    memory,           \* news_agent.memory.chat_memory.messages
    req,              \* the last request handled: its route
    resp,             \* its response: HTTP status and JSON body
    probe,            \* what the handler loaded and passed on internally while serving it
    turns,            \* observer: the turns answered so far, per session id (when counting)
    inflight,         \* the asks being served, each with the position it has reached
    gone,             \* observer: the session ids their owner has deleted
    tracked_queries,  \* news_tracker.tracked_queries: sequence of tracked query documents
    users             \* mongo.db.users: sequence of user documents

vars == <<chat_sessions, nextId, news_agent, title_generator, memory, req, resp, probe, turns,
          inflight, gone, tracked_queries, users>>

----------------------------------------------------------------------------
(* Bounds of the model *)

MaxSessions == 2      \* uuid4() is drawn at most this many times
MaxTurns == 2         \* a turn is admitted while the collection holds fewer than this many turns
MaxCounted == 2       \* when turns are counted, a session id is asked at most this many times
MaxInflight == 1      \* asks in flight where an ask interleaves with the other routes
MaxConcurrent == 2    \* asks served at the same time by one process
MaxTracked == 2       \* tracked queries are inserted at most this many times
MaxEntries == 3       \* a history entry is made while fewer than this many were made
MaxUsers == 3         \* a registration inserts while the users collection is shorter
MaxTitleText == 36    \* characters of text in a provider's title reply or a query to title
MaxResults == 7       \* results in a Serper reply
MaxLimit == 7         \* the limit argument of a search
MaxListed == 3        \* sessions in a collection that is listed

----------------------------------------------------------------------------
(* Program constants *)

TitleMaxLen == 30
TitleKeep == 27
MaxIterations == 3
SearchLimit == 5

DefaultTitle == "New Conversation"
InitFailTitle == "New Conversation"
Apology == "I'm sorry, I encountered an error while processing your request."
StoppedOutput == "Agent stopped due to iteration limit or time limit."

----------------------------------------------------------------------------
(* Python values *)

\* An optional argument (user_id=None, metadata=None): <<>> is None, <<v>> is v.
NoneArg == <<>>
Some(v) == <<v>>

\* Python truthiness of an optional string: None and "" are falsy.
Truthy(opt) == opt # NoneArg /\ opt[1] # ""

\* dict.get(key) of a JSON body / query string held as a record: None when absent.
Get(data, key) == IF key \in DOMAIN data THEN Some(data[key]) ELSE NoneArg

\* s[:n]
Prefix(s, n) == IF Len(s) <= n THEN s ELSE SubSeq(s, 1, n)

IsSpace(c) == c \in {" ", "\t", "\n", "\r"}

\* str.strip(): leading and trailing whitespace removed
RECURSIVE LStrip(_)
LStrip(s) == IF s # "" /\ IsSpace(SubSeq(s, 1, 1)) THEN LStrip(SubSeq(s, 2, Len(s))) ELSE s

RECURSIVE RStrip(_)
RStrip(s) == IF s # "" /\ IsSpace(SubSeq(s, Len(s), Len(s)))
             THEN RStrip(SubSeq(s, 1, Len(s) - 1)) ELSE s

Strip(s) == RStrip(LStrip(s))

\* str.replace(ch, ''): every occurrence of the character removed
RECURSIVE Remove(_, _)
Remove(s, ch) ==
    IF s = "" THEN ""
    ELSE LET rest == Remove(SubSeq(s, 2, Len(s)), ch)
         IN  IF SubSeq(s, 1, 1) = ch THEN rest ELSE SubSeq(s, 1, 1) \o rest

\* A faulty truncation that keeps the whole text: C15 tells the two apart.
Untruncated(t) == t

\* if len(t) > 30: t = t[:27] + "..."
Truncate(t) == IF Len(t) > TitleMaxLen THEN Prefix(t, TitleKeep) \o "..." ELSE t

----------------------------------------------------------------------------
(* services/session_service.py over the collection `coll` *)

\* The query dict: {"session_id": sid} plus "user_id" when user_id is truthy.
Matches(doc, sid, user_id) ==
    /\ doc.session_id = sid
    /\ Truthy(user_id) => doc.user_id = user_id[1]

\* Index of the first document matching the query, 0 when there is none.
FirstMatch(coll, sid, user_id) ==
    LET hits == {i \in DOMAIN coll : Matches(coll[i], sid, user_id)}
    IN  IF hits = {} THEN 0 ELSE CHOOSE i \in hits : \A j \in hits : i <= j

\* find_one({"session_id": sid}) as the routes call it directly
FindById(coll, sid) == FirstMatch(coll, sid, NoneArg)

\* A faulty create_session that numbers the session after the documents
\* stored, so the id of a deleted session comes back: C13 tells the two apart.
create_session_counted(coll, session_id, user_id, title) ==
    Append(coll, [session_id |-> Len(coll) + 1,
                  user_id    |-> user_id,
                  title      |-> IF Truthy(title) THEN title[1] ELSE DefaultTitle,
                  messages   |-> <<>>,
                  created_at |-> session_id])

create_session(coll, session_id, user_id, title) ==
    Append(coll, [session_id |-> session_id,
                  user_id    |-> user_id,
                  title      |-> IF Truthy(title) THEN title[1] ELSE DefaultTitle,
                  messages   |-> <<>>,
                  created_at |-> session_id])

\* The message document: role and content, plus the metadata keys when given.
Message(role, content, metadata) ==
    IF metadata # NoneArg /\ DOMAIN metadata[1] # {}
    THEN metadata[1] @@ [role |-> role, content |-> content]
    ELSE [role |-> role, content |-> content]

\* A faulty add_message that $set-s the message list to the new message
\* instead of $push-ing to it: C3 tells the two apart.
add_message_set(coll, sid, role, content, metadata) ==
    LET i == FirstMatch(coll, sid, NoneArg)
    IN  IF i = 0 THEN coll
        ELSE [coll EXCEPT ![i].messages = <<Message(role, content, metadata)>>]

\* A faulty add_message that upserts: it inserts a document for a session id
\* it does not find.  C12 tells the two apart.
add_message_upsert(coll, sid, role, content, metadata) ==
    LET hits == {i \in DOMAIN coll : coll[i].session_id = sid}
    IN  IF hits = {}
        THEN Append(coll, [session_id |-> sid, user_id |-> "", title |-> DefaultTitle,
                           messages |-> <<Message(role, content, metadata)>>,
                           created_at |-> sid])
        ELSE LET i == CHOOSE i \in hits : \A j \in hits : i <= j
             IN  [coll EXCEPT ![i].messages = Append(@, Message(role, content, metadata))]

\* A faulty add_message that puts the message at the front of the list
\* instead of $push-ing it to the end: C21 tells the two apart.
add_message_front(coll, sid, role, content, metadata) ==
    LET i == FindById(coll, sid)
    IN  IF i = 0 THEN coll
        ELSE [coll EXCEPT ![i].messages = <<Message(role, content, metadata)>> \o @]

\* A faulty add_message that writes back the list it read with the message
\* added as a set element would be: a message equal to the last one stored
\* is dropped.  C27 tells the two apart.
add_message_once(coll, sid, role, content, metadata) ==
    LET i == FindById(coll, sid)
        m == Message(role, content, metadata)
    IN  IF i = 0 THEN coll
        ELSE IF coll[i].messages # <<>> /\ coll[i].messages[Len(coll[i].messages)] = m
        THEN coll
        ELSE [coll EXCEPT ![i].messages = Append(@, m)]

add_message(coll, sid, role, content, metadata) ==
    LET i == FindById(coll, sid)
    IN  IF i = 0 THEN coll
        ELSE [coll EXCEPT ![i].messages = Append(@, Message(role, content, metadata))]

get_messages(coll, sid, user_id) ==
    LET i == FirstMatch(coll, sid, user_id)
    IN  IF i = 0 THEN <<>> ELSE coll[i].messages

\* A faulty list_sessions whose find has no user_id filter: C19 tells the
\* two apart.
RECURSIVE list_sessions_of_all(_, _)
list_sessions_of_all(coll, user_id) ==
    IF coll = <<>> THEN <<>>
    ELSE <<[session_id |-> Head(coll).session_id,
            created_at |-> Head(coll).created_at,
            title      |-> Head(coll).title]>> \o list_sessions_of_all(Tail(coll), user_id)

RECURSIVE list_sessions(_, _)
list_sessions(coll, user_id) ==
    IF coll = <<>> THEN <<>>
    ELSE LET s == Head(coll)
             rest == list_sessions(Tail(coll), user_id)
         IN  IF s.user_id = user_id
             THEN <<[session_id |-> s.session_id,
                     created_at |-> s.created_at,
                     title      |-> s.title]>> \o rest
             ELSE rest

\* A faulty clear_messages that also resets the title: C11 tells the two apart.
clear_messages_retitled(coll, sid, user_id) ==
    LET hits == {i \in DOMAIN coll : Matches(coll[i], sid, user_id)}
    IN  IF hits = {} THEN coll
        ELSE LET i == CHOOSE i \in hits : \A j \in hits : i <= j
             IN  [coll EXCEPT ![i].messages = <<>>, ![i].title = DefaultTitle]

clear_messages(coll, sid, user_id) ==
    LET i == FirstMatch(coll, sid, user_id)
    IN  IF i = 0 THEN coll ELSE [coll EXCEPT ![i].messages = <<>>]

\* A faulty delete_session whose delete_one has no owner filter: C22 tells
\* the two apart.
delete_session_by_id(coll, sid, user_id) ==
    LET i == FindById(coll, sid)
    IN  IF i = 0 THEN coll
        ELSE SubSeq(coll, 1, i - 1) \o SubSeq(coll, i + 1, Len(coll))

delete_session(coll, sid, user_id) ==
    LET i == FirstMatch(coll, sid, user_id)
    IN  IF i = 0 THEN coll
        ELSE SubSeq(coll, 1, i - 1) \o SubSeq(coll, i + 1, Len(coll))

\* A faulty update_session_title result that reports matched_count instead of
\* modified_count: C23 tells the two apart.
update_session_title_matched(coll, sid, title, user_id) ==
    FirstMatch(coll, sid, user_id) # 0

\* update_one(...).modified_count > 0: a document matched and its title changed
update_session_title_modified(coll, sid, title, user_id) ==
    LET i == FirstMatch(coll, sid, user_id)
    IN  i # 0 /\ coll[i].title # title

\* A faulty update_session_title that writes nothing: C4 tells the two apart.
update_session_title_skipped(coll, sid, title, user_id) == coll

update_session_title(coll, sid, title, user_id) ==
    LET i == FirstMatch(coll, sid, user_id)
    IN  IF i = 0 THEN coll ELSE [coll EXCEPT ![i].title = title]

\* find_one(query, {"_id": 0}): the document, or None
get_session(coll, sid, user_id) ==
    LET i == FirstMatch(coll, sid, user_id)
    IN  IF i = 0 THEN NoneArg ELSE Some(coll[i])

----------------------------------------------------------------------------
(* services/session_title_service.py *)

\* What self.llm.invoke(prompt) does for a title prompt: it returns a message
\* with some content, or it raises.
TitleContents == {" 'AI Regulation' ", "New Conversation"}
TitleOutcomes == {[ok |-> FALSE]} \cup {[ok |-> TRUE, content |-> c] : c \in TitleContents}

\* A faulty generate_title that cuts the reply before it removes the quotes:
\* C16 tells the two apart.
generate_title_cut_first(user_query, llm) ==
    IF llm.ok
    THEN [title |-> Remove(Remove(Truncate(Strip(llm.content)), "\""), "'"),
          llm_calls |-> 1, raised |-> FALSE]
    ELSE [title |-> IF Len(user_query) > TitleMaxLen
                    THEN Prefix(user_query, TitleKeep) \o "..."
                    ELSE user_query,
          llm_calls |-> 1, raised |-> FALSE]

\* A faulty generate_title whose fallback cuts every query longer than 27
\* characters: C17 tells the two apart.
generate_title_short_fallback(user_query, llm) ==
    IF llm.ok
    THEN [title |-> Truncate(Remove(Remove(Strip(llm.content), "\""), "'")),
          llm_calls |-> 1, raised |-> FALSE]
    ELSE [title |-> IF Len(user_query) > TitleKeep
                    THEN Prefix(user_query, TitleKeep) \o "..."
                    ELSE user_query,
          llm_calls |-> 1, raised |-> FALSE]

\* generate_title with what it did: the title returned, the calls of
\* self.llm.invoke made (one, in the try block; the except block makes none)
\* and whether an exception left the method (the except block catches all).
generate_title_run(user_query, llm) ==
    IF llm.ok
    THEN [title |-> Truncate(Remove(Remove(Strip(llm.content), "\""), "'")),
          llm_calls |-> 1, raised |-> FALSE]
    ELSE [title |-> IF Len(user_query) > TitleMaxLen
                    THEN Prefix(user_query, TitleKeep) \o "..."
                    ELSE user_query,
          llm_calls |-> 1, raised |-> FALSE]

generate_title(user_query, llm) == generate_title_run(user_query, llm).title

\* Title replies and queries of every length up to MaxTitleText, with quotes
\* and blanks inside and around them.
TitleText == "Top 'AI' rules: \"EU\" act, chips and markets news today"
Decor == {"", " ", "'", "\t\"", " ' "}
WideTitleContents == {pre \o Prefix(TitleText, n) \o suf :
                          pre \in Decor, suf \in Decor, n \in 0..MaxTitleText}
WideQueries == {pre \o Prefix(TitleText, n) : pre \in {"", " "}, n \in 0..MaxTitleText}

get_title_generator(agent) ==
    IF agent # "None" THEN "SessionTitleGenerator" ELSE "None"

----------------------------------------------------------------------------
(* services/newsagentservice.py *)

\* What the Serper request does: it raises (network, HTTP status, JSON), or it
\* returns a body whose "organic" list is given.
SearchOutcomes == {[ok |-> TRUE, organic |-> <<"article1">>]}

\* A faulty search that returns every result of the reply: C18 tells the
\* two apart.
search_unlimited(serper, limit) ==
    IF serper.ok /\ "organic" \in DOMAIN serper THEN serper.organic ELSE <<>>

\* data.get("organic", [])[:limit], and [] when anything raised.
search(serper, limit) ==
    IF serper.ok
    THEN IF "organic" \in DOMAIN serper THEN Prefix(serper.organic, limit) ELSE <<>>
    ELSE <<>>

\* Serper replies of every length up to MaxResults, a reply without the
\* "organic" key, and a failed request.
Articles == [k \in 1..(MaxResults + 1) |-> k]
WideSearchOutcomes ==
    {[ok |-> FALSE], [ok |-> TRUE]}
        \cup {[ok |-> TRUE, organic |-> SubSeq(Articles, 1, n)] : n \in 0..MaxResults}

\* One round of the ReAct loop, as the Generation Provider decides it: a final
\* answer, a tool action, text the output parser rejects, or a raised error.
ProviderMoves == {"final", "action", "unparsable", "error"}
Scripts == [1..MaxIterations -> ProviderMoves]
AgentAnswers == {"Here is the news."}

\* AgentExecutor with max_iterations=3, handle_parsing_errors=True and the
\* default early_stopping_method ("force"): the loop runs while fewer than
\* max_iterations steps were taken; a final answer ends it; a tool action runs
\* the tool and a parse error is fed back as an observation, each one step;
\* an exception of the provider propagates; a run out of steps returns the
\* fixed stop text as its output.
\* The run also reports how it ended and the provider and tool calls it made.
RECURSIVE RunRounds(_, _, _, _)
RunRounds(script, answer, iterations, tool_calls) ==
    IF iterations >= MaxIterations
    THEN [raised |-> FALSE, output |-> StoppedOutput, ended |-> "exhausted",
          llm_calls |-> iterations, tool_calls |-> tool_calls]
    ELSE LET move == script[iterations + 1]
         IN  CASE move = "final" ->
                    [raised |-> FALSE, output |-> answer, ended |-> "final",
                     llm_calls |-> iterations + 1, tool_calls |-> tool_calls]
               [] move = "error" ->
                    [raised |-> TRUE, output |-> "", ended |-> "error",
                     llm_calls |-> iterations + 1, tool_calls |-> tool_calls]
               [] move = "action" ->
                    RunRounds(script, answer, iterations + 1, tool_calls + 1)
               [] OTHER ->
                    RunRounds(script, answer, iterations + 1, tool_calls)

\* A faulty executor that runs the tool twice for each tool action: C31 tells
\* the two apart.
agent_executor_invoke_twice(script, answer) ==
    LET run == RunRounds(script, answer, 0, 0)
    IN  [run EXCEPT !.tool_calls = 2 * @]

agent_executor_invoke(script, answer) == RunRounds(script, answer, 0, 0)

\* Every way an invoke can end, over all provider scripts.

\* The runs of a provider that makes the same move in every round.
SteadyRuns == {agent_executor_invoke([i \in 1..MaxIterations |-> move], answer) :
                   move \in ProviderMoves, answer \in AgentAnswers}

\* What the first provider call of a run is given: the prompt of _create_agent
\* has the variables tools, tool_names, input and agent_scratchpad, the
\* executor is built without a memory, and invoke is passed {"input": query}.
\* `mem` is the agent memory at the call; the prompt has no place for it.
agent_input(query, mem) ==
    [tools |-> <<"NewsSearch">>, input |-> query, agent_scratchpad |-> ""]

HumanMessage(content) == [type |-> "human", content |-> content]
AIMessage(content) == [type |-> "ai", content |-> content]

\* A faulty generate_response that records the user's turn in the memory
\* before the agent runs, so a failed call leaves it behind: C9 tells the two
\* apart.
generate_response_eager(mem, query, run, serper) ==
        IF run.raised
        THEN [result |-> [success |-> FALSE, response |-> Apology, error |-> "provider error"],
              memory |-> Append(mem, [type |-> "human", content |-> query])]
        ELSE [result |-> [success |-> TRUE, response |-> run.output,
                          sources |-> search(serper, SearchLimit)],
              memory |-> mem \o <<[type |-> "human", content |-> query],
                                  [type |-> "ai", content |-> run.output]>>]

\* A faulty generate_response that records the answer before the query:
\* C30 tells the two apart.
generate_response_answer_first(mem, query, run, serper) ==
        IF run.raised
        THEN [result |-> [success |-> FALSE, response |-> Apology, error |-> "provider error"],
              memory |-> mem]
        ELSE [result |-> [success |-> TRUE, response |-> run.output,
                          sources |-> search(serper, SearchLimit)],
              memory |-> mem \o <<AIMessage(run.output), HumanMessage(query)>>]

\* generate_response: the result dict, the memory afterwards, and the calls made.
\* `run` is what self.agent_executor.invoke did, `serper` what the Serper
\* request of the trailing search_tool.search(query) did.
generate_response(mem, query, run, serper) ==
        IF run.raised
        THEN [result |-> [success |-> FALSE, response |-> Apology, error |-> "provider error"],
              memory |-> mem]
        ELSE [result |-> [success |-> TRUE, response |-> run.output,
                          sources |-> search(serper, SearchLimit)],
              memory |-> mem \o <<HumanMessage(query), AIMessage(run.output)>>]

----------------------------------------------------------------------------
(* api_routes/newsroutes.py: the module globals *)

\* Config.GOOGLE_API_KEY and Config.SERPER_API_KEY are one-element tuples (the
\* assignments end in a comma), so `not GOOGLE_API_KEY or not serper_api_key`
\* is false whatever the environment holds.
ApiKeysTruthy == TRUE

\* A faulty get_news_agent that builds a new service, with an empty memory,
\* on every call: C10 tells the two apart.
get_news_agent_fresh(agent, generator, mem) ==
    [news_agent |-> "NewsAgentService",
     title_generator |-> "SessionTitleGenerator",
     memory |-> <<>>]

\* get_news_agent(): the globals after the call.
get_news_agent(agent, generator, mem) ==
    IF agent = "None"
    THEN IF ~ApiKeysTruthy
         THEN [news_agent |-> agent, title_generator |-> generator, memory |-> mem]
         ELSE [news_agent |-> "NewsAgentService",
               title_generator |-> IF generator = "None"
                                   THEN get_title_generator("NewsAgentService")
                                   ELSE generator,
               memory |-> <<>>]
    ELSE [news_agent |-> agent, title_generator |-> generator, memory |-> mem]

\* A faulty get_title_for_query that always takes the branch of a generator
\* that is not ready: C14 tells the two apart.
get_title_for_query_unready(g, query, llm) == InitFailTitle

\* get_title_for_query(query), given the globals after its get_news_agent() call.
get_title_for_query(g, query, llm) ==
    IF g.news_agent = "None" THEN InitFailTitle
    ELSE IF g.title_generator = "None" THEN InitFailTitle
    ELSE generate_title(query, llm)

\* A faulty clear that leaves the memory as it is: C6 tells the two apart.
memory_kept(mem) == mem

\* agent.memory.clear()
memory_clear(mem) == <<>>

\* The replay loop: each loaded message is added to the memory by its role.
\* A faulty replay that adds the stored messages newest first: C28 tells the
\* two apart.
Replay_newest_first(mem, history) ==
    mem \o [n \in 1..Len(history) |->
               LET msg == history[Len(history) + 1 - n]
               IN  IF msg.role = "user" THEN HumanMessage(msg.content)
                                        ELSE AIMessage(msg.content)]

RECURSIVE Replay(_, _)
Replay(mem, history) ==
    IF history = <<>> THEN mem
    ELSE LET msg == Head(history)
         IN  Replay(CASE msg.role = "user" -> Append(mem, HumanMessage(msg.content))
                      [] msg.role = "ai"   -> Append(mem, AIMessage(msg.content))
                      [] OTHER             -> mem,
                    Tail(history))

----------------------------------------------------------------------------
(* Requests *)

SessionIds == 1..MaxSessions
Users == {"A"}                     \* the owners sessions are started for
CallerIds == {"", "A", "B"}        \* the user_id values requests carry
Queries == {"What is the latest news about AI regulation?"}
NewTitles == {"Regulation news and policy tracker"}

FieldValues(key) ==
    CASE key = "user_id"       -> CallerIds
      [] key = "query"         -> Queries
      [] key = "initial_query" -> Queries
      [] key = "title"         -> NewTitles

\* The JSON bodies (or query strings) over the given keys: any subset of the
\* keys may be present.
Bodies(keys) ==
    UNION {{d \in [present -> UNION {FieldValues(k) : k \in keys}] :
                \A k \in present : d[k] \in FieldValues(k)} : present \in SUBSET keys}

StartBodies == {d \in Bodies({"user_id", "initial_query"}) :
                    "user_id" \in DOMAIN d => d.user_id \in Users}
AskBodies == Bodies({"user_id", "query"})
UserBodies == Bodies({"user_id"})
TitleBodies == Bodies({"user_id", "title"})

----------------------------------------------------------------------------
(* api_routes/newsroutes.py: the session routes.                           *)
(* A handler is an operator from the process state `st` (the collection,   *)
(* the uuid draws, the module globals and the agent memory), the request   *)
(* and what the providers do during it, to the state it leaves, the        *)
(* response it returns and what it loaded and passed on internally.        *)

State == [chat_sessions   |-> chat_sessions,
          nextId          |-> nextId,
          news_agent      |-> news_agent,
          title_generator |-> title_generator,
          memory          |-> memory]

NoProbe == [route |-> "none"]

Error(st, status, text) ==
    [st |-> st, probe |-> NoProbe,
     resp |-> [status |-> status, body |-> [success |-> FALSE, error |-> text]]]

Ok(st, body) == [st |-> st, probe |-> NoProbe, resp |-> [status |-> 200, body |-> body]]

\* The state after get_news_agent() ran in it.
WithAgent(st) ==
    LET g == get_news_agent(st.news_agent, st.title_generator, st.memory)
    IN  [st EXCEPT !.news_agent = g.news_agent,
                   !.title_generator = g.title_generator,
                   !.memory = g.memory]

\* POST /session/start
start_session(st, data, llm) ==
    IF "user_id" \notin DOMAIN data
    THEN Error(st, 400, "Missing user_id")
    ELSE LET session_id == st.nextId + 1
             created == [st EXCEPT !.nextId = session_id,
                                   !.chat_sessions =
                                       create_session(@, session_id, data.user_id, NoneArg)]
         IN  IF "initial_query" \in DOMAIN data
             THEN LET g == WithAgent(created)
                      initial_title == get_title_for_query(g, data.initial_query, llm)
                  IN  Ok([g EXCEPT !.chat_sessions =
                                update_session_title(@, session_id, initial_title, NoneArg)],
                         [success |-> TRUE, session_id |-> session_id,
                          title |-> initial_title])
             ELSE Ok(created,
                     [success |-> TRUE, session_id |-> session_id, title |-> DefaultTitle])

\* A faulty ownership test that, like the service's filters, lets an empty
\* user_id through: C1 tells the two apart.
OwnerMismatchTruthy(session, user_id) == user_id # "" /\ session.user_id # user_id

\* session.get("user_id") != user_id, on the document found by id alone
OwnerMismatch(session, user_id) == session.user_id # user_id

\* A faulty metadata that is built whenever the result has a sources key, an
\* empty list included: C32 tells the two apart.
SourcesMetadataAlways(result) ==
    IF "sources" \in DOMAIN result THEN Some([sources |-> result.sources]) ELSE NoneArg

\* {"sources": sources} if sources else None
SourcesMetadata(result) ==
    IF "sources" \in DOMAIN result /\ result.sources # <<>>
    THEN Some([sources |-> result.sources])
    ELSE NoneArg

\* A faulty turn that stores the assistant message only when the answer
\* succeeded: C7 tells the two apart.
ask_turn_unless_failed(g, session_id, user_id, user_query, llm, run, serper) ==
    LET history == get_messages(g.chat_sessions, session_id, Some(user_id))
        is_first_message == Len(history) = 0
        title == get_title_for_query(g, user_query, llm)
        titled == IF is_first_message
                  THEN update_session_title(g.chat_sessions, session_id, title, NoneArg)
                  ELSE g.chat_sessions
        replayed == Replay(memory_clear(g.memory), history)
        asked == add_message(titled, session_id, "user", user_query, NoneArg)
        gen == generate_response(replayed, user_query, run, serper)
        result == gen.result
        answered == IF result.success
                    THEN add_message(asked, session_id, "ai", result.response,
                                     SourcesMetadata(result))
                    ELSE asked
        with_id == [session_id |-> session_id] @@ result
    IN  [st    |-> [g EXCEPT !.chat_sessions = answered, !.memory = gen.memory],
         probe |-> [route |-> "ask_session",
                    history |-> history,
                    memory_at_answer |-> replayed,
                    ended |-> run.ended,
                    provider_input |-> agent_input(user_query, replayed),
                    stored_at_answer |-> get_messages(asked, session_id, NoneArg)],
         resp  |-> [status |-> 200,
                    body |-> IF is_first_message THEN [title |-> title] @@ with_id
                                                 ELSE with_id]]

\* POST /session/<session_id>/ask, from the loaded history on
ask_turn(g, session_id, user_id, user_query, llm, run, serper) ==
    LET history == get_messages(g.chat_sessions, session_id, Some(user_id))
        is_first_message == Len(history) = 0
        title == get_title_for_query(g, user_query, llm)
        titled == IF is_first_message
                  THEN update_session_title(g.chat_sessions, session_id, title, NoneArg)
                  ELSE g.chat_sessions
        replayed == Replay(memory_clear(g.memory), history)
        asked == add_message(titled, session_id, "user", user_query, NoneArg)
        gen == generate_response(replayed, user_query, run, serper)
        result == gen.result
        answered == add_message(asked, session_id, "ai", result.response,
                                SourcesMetadata(result))
        with_id == [session_id |-> session_id] @@ result
    IN  [st    |-> [g EXCEPT !.chat_sessions = answered, !.memory = gen.memory],
         probe |-> [route |-> "ask_session",
                    history |-> history,
                    memory_at_answer |-> replayed,
                    ended |-> run.ended,
                    provider_input |-> agent_input(user_query, replayed),
                    stored_at_answer |-> get_messages(asked, session_id, NoneArg)],
         resp  |-> [status |-> 200,
                    body |-> IF is_first_message THEN [title |-> title] @@ with_id
                                                 ELSE with_id]]

\* POST /session/<session_id>/ask
ask_session(st, session_id, data, llm, run, serper) ==
    IF "query" \notin DOMAIN data THEN Error(st, 400, "Missing query")
    ELSE IF "user_id" \notin DOMAIN data THEN Error(st, 400, "Missing user_id")
    ELSE LET g == WithAgent(st)
             found == FindById(g.chat_sessions, session_id)
         IN  IF g.news_agent = "None" THEN Error(g, 500, "Init error")
             ELSE IF found = 0 THEN Error(g, 404, "Session not found")
             ELSE IF OwnerMismatch(g.chat_sessions[found], data.user_id)
                  THEN Error(g, 403, "Unauthorized access to session")
             ELSE ask_turn(g, session_id, data.user_id, data.query, llm, run, serper)

\* GET /sessions?user_id=
get_sessions_route(st, args) ==
    IF ~Truthy(Get(args, "user_id"))
    THEN Error(st, 400, "Missing user_id parameter")
    ELSE Ok(st, [success |-> TRUE,
                 sessions |-> list_sessions(st.chat_sessions, args.user_id)])

\* GET /session/<session_id>?user_id=
get_session_route(st, session_id, args) ==
    IF ~Truthy(Get(args, "user_id"))
    THEN Error(st, 400, "Missing user_id parameter")
    ELSE LET session == get_session(st.chat_sessions, session_id, Some(args.user_id))
         IN  IF session = NoneArg
             THEN Error(st, 404, "Session not found or unauthorized")
             ELSE Ok(st, [success |-> TRUE, session |-> session[1]])

\* PUT /session/<session_id>/title
update_session_title_route(st, session_id, data) ==
    IF "user_id" \notin DOMAIN data THEN Error(st, 400, "Missing user_id")
    ELSE IF "title" \notin DOMAIN data THEN Error(st, 400, "Missing title")
    ELSE LET new_title == Truncate(data.title)
             success == update_session_title_modified(st.chat_sessions, session_id,
                                                      new_title, Some(data.user_id))
             updated == [st EXCEPT !.chat_sessions =
                            update_session_title(@, session_id, new_title, Some(data.user_id))]
         IN  IF ~success
             THEN Error(updated, 404, "Session not found or unauthorized")
             ELSE Ok(updated, [success |-> TRUE, title |-> new_title])

\* GET /session/<session_id>/history?user_id=
session_history(st, session_id, args) ==
    IF ~Truthy(Get(args, "user_id"))
    THEN Error(st, 400, "Missing user_id parameter")
    ELSE LET messages == get_messages(st.chat_sessions, session_id, Some(args.user_id))
         IN  IF messages = <<>> /\ FindById(st.chat_sessions, session_id) # 0
             THEN Error(st, 403, "Session not found or unauthorized")
             ELSE Ok(st, [success |-> TRUE, history |-> messages])

\* POST /session/<session_id>/clear
clear_session_route(st, session_id, data) ==
    IF "user_id" \notin DOMAIN data THEN Error(st, 400, "Missing user_id")
    ELSE Ok([st EXCEPT !.chat_sessions = clear_messages(@, session_id, Some(data.user_id))],
            [success |-> TRUE, message |-> "Session cleared"])

\* DELETE /session/<session_id>/delete
delete_session_route(st, session_id, data) ==
    IF "user_id" \notin DOMAIN data THEN Error(st, 400, "Missing user_id")
    ELSE Ok([st EXCEPT !.chat_sessions = delete_session(@, session_id, Some(data.user_id))],
            [success |-> TRUE, message |-> "Session deleted"])

----------------------------------------------------------------------------
(* api_routes/newsroutes.py: the routes on the shared agent itself *)

\* POST /ask
ask_news_agent(st, data, script, answer, serper) ==
    LET g == WithAgent(st)
    IN  IF g.news_agent = "None"
        THEN Error(g, 500, "Could not initialize news agent service. Check API keys.")
        ELSE IF "query" \notin DOMAIN data
        THEN Error(g, 400, "Missing query parameter in request body")
        ELSE LET run == agent_executor_invoke(script, answer)
                 gen == generate_response(g.memory, data.query, run, serper)
             IN  [st    |-> [g EXCEPT !.memory = gen.memory],
                  probe |-> [route |-> "ask", script |-> script,
                             memory_before |-> g.memory,
                             llm_calls |-> run.llm_calls,
                             tool_calls |-> run.tool_calls],
                  resp  |-> [status |-> 200, body |-> gen.result]]

\* POST /clear
clear_conversation(st) ==
    LET g == WithAgent(st)
    IN  IF g.news_agent = "None"
        THEN Error(g, 500, "Could not initialize news agent service. Check API keys.")
        ELSE Ok([g EXCEPT !.memory = memory_clear(@)],
                [success |-> TRUE, message |-> "Conversation history cleared"])

\* GET /history
get_conversation_history(st) ==
    LET g == WithAgent(st)
    IN  IF g.news_agent = "None"
        THEN Error(g, 500, "Could not initialize news agent service. Check API keys.")
        ELSE Ok(g, [success |-> TRUE,
                    history |-> [i \in DOMAIN g.memory |->
                                    [role |-> g.memory[i].type,
                                     content |-> g.memory[i].content]]])

----------------------------------------------------------------------------
(* api_routes/newsroutes.py: the tracked_queries collection of the          *)
(* news_tracker database.  `created` tells whether the collection exists,   *)
(* `inserted` how many ObjectIds were generated (an _id is the number of    *)
(* the insert), `docs` the documents in insertion order.  The date of a     *)
(* history entry is a logical clock that ticks at each entry; created_at    *)
(* and updated_at are not modelled.                                         *)

NoTrackedQueries == [created |-> FALSE, inserted |-> 0, entries |-> 0, docs |-> <<>>]

\* ObjectId(query_id) raises for a string that is not an ObjectId: 0 here.
ValidObjectId(query_id) == query_id # 0

\* A faulty find that filters on the _id alone: C36 tells the two apart.
FindTrackedOfAnyone(docs, oid, user_id) ==
    LET hits == {i \in DOMAIN docs : docs[i]._id = oid}
    IN  IF hits = {} THEN 0 ELSE CHOOSE i \in hits : \A j \in hits : i <= j

\* The first document matching {"_id": oid, "user_id": user_id}, 0 for none.
FindTracked(docs, oid, user_id) ==
    LET hits == {i \in DOMAIN docs : docs[i]._id = oid /\ docs[i].user_id = user_id}
    IN  IF hits = {} THEN 0 ELSE CHOOSE i \in hits : \A j \in hits : i <= j

\* The first document matching {"_id": oid}, 0 for none.
FindTrackedById(docs, oid) ==
    LET hits == {i \in DOMAIN docs : docs[i]._id = oid}
    IN  IF hits = {} THEN 0 ELSE CHOOSE i \in hits : \A j \in hits : i <= j

\* sorted(tracking_history, key=date, reverse=True)[0].get('summary', ''):
\* the summary of the entry with the latest date; None for an empty history.
PreviousSummary(history) ==
    IF history = <<>> THEN NoneArg
    ELSE LET latest == CHOOSE e \in {history[n] : n \in DOMAIN history} :
                           \A n \in DOMAIN history : history[n].date <= e.date
         IN  Some(latest.summary)

\* The changes of an entry: None when the previous summary is None or empty;
\* else the lines difflib.ndiff marks "+ " joined as `new` and those it marks
\* "- " joined as `removed`, each None when there is none.  Summaries are
\* single lines here, so the two texts are equal or each is a marked line.
Changes(previous_summary, new_summary) ==
    IF previous_summary = NoneArg \/ previous_summary[1] = "" THEN NoneArg
    ELSE IF previous_summary[1] = new_summary
    THEN Some([new |-> NoneArg, removed |-> NoneArg])
    ELSE Some([new     |-> IF new_summary = "" THEN NoneArg ELSE Some(new_summary),
               removed |-> Some(previous_summary[1])])

\* A faulty update that $set-s the history to the new entry instead of
\* $push-ing to it: C35 tells the two apart.
push_history_only(docs, oid, entry) ==
    LET i == FindTrackedById(docs, oid)
    IN  IF i = 0 THEN docs ELSE [docs EXCEPT ![i].tracking_history = <<entry>>]

\* update_one({"_id": oid}, {"$push": {"tracking_history": entry}, ...})
push_history(docs, oid, entry) ==
    LET i == FindTrackedById(docs, oid)
    IN  IF i = 0 THEN docs ELSE [docs EXCEPT ![i].tracking_history = Append(@, entry)]

\* A faulty toggle that negates the stored flag whatever is given: C37 tells
\* the two apart.
new_status_negated(current_status, is_active) == ~current_status

\* not current_status if is_active is None else is_active
new_status(current_status, is_active) ==
    IF is_active = NoneArg THEN ~current_status ELSE is_active[1]

\* result.get('sources', {})
ResultSources(result) == IF "sources" \in DOMAIN result THEN result.sources ELSE <<>>

TrackedError(st, tq, status, text) ==
    [st |-> st, tq |-> tq,
     resp |-> [status |-> status, body |-> [success |-> FALSE, error |-> text]]]

TrackedOk(st, tq, body) == [st |-> st, tq |-> tq, resp |-> [status |-> 200, body |-> body]]

\* GET /tracked-queries?user_id=
get_tracked_queries(st, tq, args) ==
    IF ~Truthy(Get(args, "user_id"))
    THEN TrackedError(st, tq, 400, "Missing user_id parameter")
    ELSE IF ~tq.created
    THEN TrackedOk(st, [tq EXCEPT !.created = TRUE],
                   [success |-> TRUE, tracked_queries |-> <<>>,
                    message |-> "No queries found - collection was just created"])
    ELSE LET RECURSIVE Found(_)
             Found(docs) ==
                 IF docs = <<>> THEN <<>>
                 ELSE IF Head(docs).user_id = args.user_id
                 THEN <<[_id |-> Head(docs)._id, query |-> Head(docs).query,
                         is_active |-> Head(docs).is_active]>> \o Found(Tail(docs))
                 ELSE Found(Tail(docs))
         IN  TrackedOk(st, tq, [success |-> TRUE, tracked_queries |-> Found(tq.docs),
                                count |-> Len(Found(tq.docs))])

\* GET /tracked-queries/<query_id>?user_id= (include_history left at its
\* default): the document with the latest entry's summary and changes in
\* place of the history; the regrouping of the sources is not modelled.
get_tracked_query_details(st, tq, query_id, args) ==
    IF ~Truthy(Get(args, "user_id"))
    THEN TrackedError(st, tq, 400, "Missing user_id parameter")
    ELSE IF ~ValidObjectId(query_id)
    THEN TrackedError(st, tq, 400, "Invalid query ID format")
    ELSE LET i == FindTracked(tq.docs, query_id, args.user_id)
         IN  IF i = 0
             THEN TrackedError(st, tq, 404, "Tracked query not found or unauthorized access")
             ELSE LET doc == tq.docs[i]
                      history == doc.tracking_history
                      shown == [_id |-> doc._id, user_id |-> doc.user_id,
                                query |-> doc.query, is_active |-> doc.is_active]
                  IN  IF history = <<>>
                      THEN TrackedOk(st, tq, [success |-> TRUE,
                                              tracked_query |-> [tracking_history |-> <<>>]
                                                                    @@ shown])
                      ELSE LET latest == CHOOSE e \in {history[n] : n \in DOMAIN history} :
                                             \A n \in DOMAIN history : history[n].date <= e.date
                           IN  TrackedOk(st, tq,
                                   [success |-> TRUE,
                                    tracked_query |-> [summary |-> latest.summary,
                                                       update_date |-> latest.date,
                                                       changes |-> latest.changes] @@ shown])

\* POST /tracked-queries.  generate_response catches what the providers
\* raise, so the entry of the initial query is always built.
create_tracked_query(st, tq, data, run, serper) ==
    IF DOMAIN data = {} THEN TrackedError(st, tq, 400, "Missing request body")
    ELSE IF ~Truthy(Get(data, "user_id"))
    THEN TrackedError(st, tq, 400, "Missing user_id parameter")
    ELSE IF ~Truthy(Get(data, "query"))
    THEN TrackedError(st, tq, 400, "Missing query parameter")
    ELSE LET g == WithAgent(st)
         IN  IF g.news_agent = "None"
             THEN TrackedError(g, tq, 500,
                               "Could not initialize news agent service. Check API keys.")
             ELSE LET gen == generate_response(g.memory, data.query, run, serper)
                      entry == [date |-> tq.entries + 1,
                                summary |-> gen.result.response,
                                sources |-> ResultSources(gen.result),
                                changes |-> NoneArg]
                      doc == [_id |-> tq.inserted + 1,
                              user_id |-> data.user_id,
                              query |-> data.query,
                              is_active |-> TRUE,
                              tracking_history |-> <<entry>>]
                  IN  TrackedOk([g EXCEPT !.memory = gen.memory],
                                [created |-> TRUE, inserted |-> tq.inserted + 1,
                                 entries |-> tq.entries + 1, docs |-> Append(tq.docs, doc)],
                                [success |-> TRUE,
                                 message |-> "Tracked query created and initial tracking performed",
                                 tracked_query_id |-> tq.inserted + 1])

\* DELETE /tracked-queries/<query_id>
delete_tracked_query(st, tq, query_id, data) ==
    IF DOMAIN data = {} THEN TrackedError(st, tq, 400, "Missing request body")
    ELSE IF ~Truthy(Get(data, "user_id"))
    THEN TrackedError(st, tq, 400, "Missing user_id parameter")
    ELSE IF ~ValidObjectId(query_id)
    THEN TrackedError(st, tq, 400, "Invalid query ID format")
    ELSE LET i == FindTracked(tq.docs, query_id, data.user_id)
         IN  IF i = 0
             THEN TrackedError(st, tq, 404, "Tracked query not found or unauthorized access")
             ELSE TrackedOk(st, [tq EXCEPT !.docs = SubSeq(@, 1, i - 1)
                                                        \o SubSeq(@, i + 1, Len(@))],
                            [success |-> TRUE,
                             message |-> "Tracked query deleted successfully"])

\* POST /tracked-queries/<query_id>/update
update_tracked_query(st, tq, query_id, data, run, serper) ==
    IF DOMAIN data = {} THEN TrackedError(st, tq, 400, "Missing request body")
    ELSE IF ~Truthy(Get(data, "user_id"))
    THEN TrackedError(st, tq, 400, "Missing user_id parameter")
    ELSE LET g == WithAgent(st)
             i == FindTracked(tq.docs, query_id, data.user_id)
         IN  IF g.news_agent = "None"
             THEN TrackedError(g, tq, 500,
                               "Could not initialize news agent service. Check API keys.")
             ELSE IF ~ValidObjectId(query_id)
             THEN TrackedError(g, tq, 400, "Invalid query ID format")
             ELSE IF i = 0
             THEN TrackedError(g, tq, 404, "Tracked query not found or unauthorized access")
             ELSE IF tq.docs[i].query = ""
             THEN TrackedError(g, tq, 500, "Invalid tracked query: missing query text")
             ELSE LET previous_summary == PreviousSummary(tq.docs[i].tracking_history)
                      gen == generate_response(g.memory, tq.docs[i].query, run, serper)
                      new_summary == gen.result.response
                      entry == [date |-> tq.entries + 1,
                                summary |-> new_summary,
                                sources |-> ResultSources(gen.result),
                                changes |-> Changes(previous_summary, new_summary)]
                  IN  TrackedOk([g EXCEPT !.memory = gen.memory],
                                [tq EXCEPT !.entries = @ + 1,
                                           !.docs = push_history(@, query_id, entry)],
                                [success |-> TRUE,
                                 message |-> "Tracked query updated successfully",
                                 tracked_query_id |-> query_id,
                                 summary |-> new_summary,
                                 sources |-> ResultSources(gen.result)])

\* PATCH /tracked-queries/<query_id>/toggle-status
toggle_tracked_query_status(st, tq, query_id, data) ==
    IF DOMAIN data = {} THEN TrackedError(st, tq, 400, "Missing request body")
    ELSE IF ~Truthy(Get(data, "user_id"))
    THEN TrackedError(st, tq, 400, "Missing user_id parameter")
    ELSE IF ~ValidObjectId(query_id)
    THEN TrackedError(st, tq, 400, "Invalid query ID format")
    ELSE LET i == FindTracked(tq.docs, query_id, data.user_id)
         IN  IF i = 0
             THEN TrackedError(st, tq, 404, "Tracked query not found or unauthorized access")
             ELSE LET status == new_status(tq.docs[i].is_active, Get(data, "is_active"))
                      j == FindTrackedById(tq.docs, query_id)
                  IN  TrackedOk(st, [tq EXCEPT !.docs[j].is_active = status],
                                [success |-> TRUE,
                                 message |-> IF status
                                             THEN "Tracked query activated successfully"
                                             ELSE "Tracked query deactivated successfully",
                                 tracked_query_id |-> query_id,
                                 is_active |-> status])

----------------------------------------------------------------------------
(* The process: one request is handled at a time, each by its handler *)

\* The process as it starts: an empty collection, no agent built yet.
Started ==
    /\ chat_sessions = <<>>
    /\ nextId = 0
    /\ news_agent = "None"
    /\ title_generator = "None"
    /\ memory = <<>>
    /\ req = [route |-> "none"]
    /\ resp = [status |-> 0]
    /\ probe = NoProbe
    /\ inflight = [k \in 1..MaxInflight |-> [pc |-> "idle"]]
    /\ gone = {}
    /\ tracked_queries = NoTrackedQueries
    /\ users = <<>>

Init == Started /\ turns = [counting |-> FALSE]

\* The observer of turns.  `asked` counts, per session id, the asks answered
\* 200; `since` counts those answered since a clear request last left the
\* session without messages.
CountTurns(t, route, session_id, outcome) ==
    IF ~t.counting THEN t
    ELSE IF route = "ask_session" /\ outcome.resp.status = 200
    THEN [t EXCEPT !.asked[session_id] = @ + 1, !.since[session_id] = @ + 1]
    ELSE IF /\ route = "clear_session"
            /\ outcome.resp.status = 200
            /\ get_messages(outcome.st.chat_sessions, session_id, NoneArg) = <<>>
    THEN [t EXCEPT !.since[session_id] = 0]
    ELSE t

\* The handler's outcome becomes the next state.
Answered(route, outcome) ==
    /\ req' = [route |-> route]
    /\ resp' = outcome.resp
    /\ probe' = outcome.probe
    /\ chat_sessions' = outcome.st.chat_sessions
    /\ nextId' = outcome.st.nextId
    /\ news_agent' = outcome.st.news_agent
    /\ title_generator' = outcome.st.title_generator
    /\ memory' = outcome.st.memory

\* A request served from its first line to its response with no other request
\* in between.
Handled(route, session_id, outcome) ==
    /\ req' = [route |-> route]
    /\ turns' = CountTurns(turns, route, session_id, outcome)
    /\ UNCHANGED <<inflight, gone,
                   tracked_queries, users>>
    /\ resp' = outcome.resp
    /\ probe' = outcome.probe
    /\ chat_sessions' = outcome.st.chat_sessions
    /\ nextId' = outcome.st.nextId
    /\ news_agent' = outcome.st.news_agent
    /\ title_generator' = outcome.st.title_generator
    /\ memory' = outcome.st.memory

TotalMessages(coll) ==
    LET RECURSIVE Sum(_)
        Sum(c) == IF c = <<>> THEN 0 ELSE Len(Head(c).messages) + Sum(Tail(c))
    IN  Sum(coll)

StartSession ==
    \E data \in StartBodies :
        IF "initial_query" \in DOMAIN data /\ "user_id" \in DOMAIN data
        THEN /\ nextId < MaxSessions
             /\ \E llm \in TitleOutcomes :
                    Handled("start_session", 0, start_session(State, data, llm))
        ELSE /\ "user_id" \in DOMAIN data => nextId < MaxSessions
             /\ \E llm \in {[ok |-> FALSE]} :
                    Handled("start_session", 0, start_session(State, data, llm))

\* A request refused before the turn starts calls no provider.
AskRefused(st, session_id, data) ==
    \/ "query" \notin DOMAIN data
    \/ "user_id" \notin DOMAIN data
    \/ WithAgent(st).news_agent = "None"
    \/ FindById(st.chat_sessions, session_id) = 0
    \/ OwnerMismatch(st.chat_sessions[FindById(st.chat_sessions, session_id)], data.user_id)

AskSession ==
    \E session_id \in SessionIds, data \in AskBodies :
        IF AskRefused(State, session_id, data)
        THEN \E llm \in {[ok |-> FALSE]}, run \in {CHOOSE r \in SteadyRuns : r.raised},
                serper \in {[ok |-> FALSE]} :
                 Handled("ask_session", session_id, ask_session(State, session_id, data, llm, run, serper))
        ELSE /\ TotalMessages(chat_sessions) < 2 * MaxTurns
             /\ turns.counting => turns.asked[session_id] < MaxCounted
             /\ \E llm \in TitleOutcomes, run \in SteadyRuns, serper \in SearchOutcomes :
                 Handled("ask_session", session_id, ask_session(State, session_id, data, llm, run, serper))

ListSessions ==
    \E args \in UserBodies : Handled("get_sessions", 0, get_sessions_route(State, args))

GetSession ==
    \E session_id \in SessionIds, args \in UserBodies :
        Handled("get_session", session_id, get_session_route(State, session_id, args))

UpdateSessionTitle ==
    \E session_id \in SessionIds, data \in TitleBodies :
        Handled("update_session_title", session_id, update_session_title_route(State, session_id, data))

GetSessionHistory ==
    \E session_id \in SessionIds, args \in UserBodies :
        Handled("session_history", session_id, session_history(State, session_id, args))

ClearSession ==
    \E session_id \in SessionIds, data \in UserBodies :
        Handled("clear_session", session_id, clear_session_route(State, session_id, data))

DeleteSession ==
    \E session_id \in SessionIds, data \in UserBodies :
        Handled("delete_session", session_id, delete_session_route(State, session_id, data))

Next ==
    \/ StartSession
    \/ AskSession
    \/ ListSessions
    \/ GetSession
    \/ UpdateSessionTitle
    \/ GetSessionHistory
    \/ ClearSession
    \/ DeleteSession

Spec == Init /\ [][Next]_vars

\* The routes on the shared agent, under every provider script.
QueryBodies == Bodies({"query"})
AgentSearchOutcomes == SearchOutcomes \cup {[ok |-> FALSE]}

AskNewsAgent ==
    \E data \in QueryBodies :
        IF "query" \notin DOMAIN data
        THEN \E script \in {[i \in 1..MaxIterations |-> "error"]}, answer \in AgentAnswers,
                serper \in {[ok |-> FALSE]} :
                 Handled("ask", 0, ask_news_agent(State, data, script, answer, serper))
        ELSE /\ Len(memory) < 2 * MaxTurns
             /\ \E script \in Scripts, answer \in AgentAnswers, serper \in AgentSearchOutcomes :
                 Handled("ask", 0, ask_news_agent(State, data, script, answer, serper))

ClearConversation == Handled("clear", 0, clear_conversation(State))

GetConversationHistory == Handled("history", 0, get_conversation_history(State))

NextAgent ==
    \/ AskNewsAgent
    \/ ClearConversation
    \/ GetConversationHistory

SpecAgent == Init /\ [][NextAgent]_vars

\* The routes that write to the collection, with the turns counted.
InitTurns ==
    /\ Started
    /\ turns = [counting |-> TRUE,
                asked |-> [sid \in SessionIds |-> 0],
                since |-> [sid \in SessionIds |-> 0]]

NextTurns ==
    \/ StartSession
    \/ AskSession
    \/ UpdateSessionTitle
    \/ ClearSession
    \/ DeleteSession

SpecTurns == InitTurns /\ [][NextTurns]_vars

----------------------------------------------------------------------------
(* Requests that interleave: an ask is served one database operation at a  *)
(* time, and other requests run between its operations.  The position of   *)
(* an ask is the operation of ask_session it performs next.                *)

Idle == [pc |-> "idle"]

\* Messages stored plus those the asks being served are still to store.
Committed ==
    TotalMessages(chat_sessions) + 2 * Cardinality({k \in DOMAIN inflight : inflight[k] # Idle})

\* What the providers do during an interleaved ask: the title provider
\* replies, and the agent run ends with a final answer or with a provider error.
TitleReplies == {o \in TitleOutcomes : o.ok /\ o.content # DefaultTitle}
EndedRuns == {r \in SteadyRuns : r.ended \in {"final", "error"}}

\* Validation, get_news_agent(), find_one and the ownership check.
AskBegin ==
    \E session_id \in SessionIds, data \in AskBodies :
        IF AskRefused(State, session_id, data)
        THEN \E llm \in {[ok |-> FALSE]}, run \in {CHOOSE r \in SteadyRuns : r.raised},
                serper \in {[ok |-> FALSE]} :
                 Handled("ask_session", session_id,
                         ask_session(State, session_id, data, llm, run, serper))
        ELSE \E k \in DOMAIN inflight :
                 /\ inflight[k] = Idle
                 /\ Committed < 2 * MaxTurns
                 /\ inflight' = [inflight EXCEPT ![k] =
                                    [pc |-> "checked", session_id |-> session_id,
                                     user_id |-> data.user_id, user_query |-> data.query]]
                 /\ news_agent' = WithAgent(State).news_agent
                 /\ title_generator' = WithAgent(State).title_generator
                 /\ memory' = WithAgent(State).memory
                 /\ UNCHANGED <<chat_sessions, nextId, req, resp, probe, turns, gone,
                   tracked_queries, users>>

\* history = get_messages(session_id, user_id)
AskLoad ==
    \E k \in DOMAIN inflight :
        /\ inflight[k].pc = "checked"
        /\ inflight' = [inflight EXCEPT ![k] =
               [pc |-> "loaded"] @@ [history |-> get_messages(chat_sessions, @.session_id,
                                                              Some(@.user_id))] @@ @]
        /\ UNCHANGED <<chat_sessions, nextId, news_agent, title_generator, memory,
                       req, resp, probe, turns, gone,
                   tracked_queries, users>>

\* The title of a first message, then the memory cleared and replayed.
AskReplay ==
    \E k \in DOMAIN inflight, llm \in TitleReplies :
        LET a == inflight[k]
            is_first_message == Len(a.history) = 0
            title == get_title_for_query(State, a.user_query, llm)
        IN  /\ a.pc = "loaded"
            /\ chat_sessions' = IF is_first_message
                                 THEN update_session_title(chat_sessions, a.session_id,
                                                           title, NoneArg)
                                 ELSE chat_sessions
            /\ memory' = Replay(memory_clear(memory), a.history)
            /\ inflight' = [inflight EXCEPT ![k] =
                   [pc |-> "replayed"] @@ [title |-> IF is_first_message THEN title ELSE ""]
                                       @@ @]
            /\ UNCHANGED <<nextId, news_agent, title_generator, req, resp, probe, turns, gone,
                   tracked_queries, users>>

\* add_message(session_id, 'user', user_query)
AskStoreUser ==
    \E k \in DOMAIN inflight :
        /\ inflight[k].pc = "replayed"
        /\ chat_sessions' = add_message(chat_sessions, inflight[k].session_id, "user",
                                        inflight[k].user_query, NoneArg)
        /\ inflight' = [inflight EXCEPT ![k] = [pc |-> "asked"] @@ @]
        /\ UNCHANGED <<nextId, news_agent, title_generator, memory, req, resp, probe,
                       turns, gone,
                   tracked_queries, users>>

\* generate_response, add_message(session_id, 'ai', ...) and the response.
AskAnswer ==
    \E k \in DOMAIN inflight, run \in EndedRuns, serper \in SearchOutcomes :
        LET a == inflight[k]
            gen == generate_response(memory, a.user_query, run, serper)
            with_id == [session_id |-> a.session_id] @@ gen.result
        IN  /\ a.pc = "asked"
            /\ memory' = gen.memory
            /\ chat_sessions' = add_message(chat_sessions, a.session_id, "ai",
                                            gen.result.response, SourcesMetadata(gen.result))
            /\ req' = [route |-> "ask_session"]
            /\ resp' = [status |-> 200,
                        body |-> IF Len(a.history) = 0 THEN [title |-> a.title] @@ with_id
                                                       ELSE with_id]
            /\ probe' = NoProbe
            /\ inflight' = [inflight EXCEPT ![k] = Idle]
            /\ turns' = CountTurns(turns, "ask_session", a.session_id, [resp |-> resp'])
            /\ UNCHANGED <<nextId, news_agent, title_generator, gone,
                   tracked_queries, users>>

\* DELETE /session/<session_id>/delete, with the owner's deletions recorded.
DeleteSessionByAnyone ==
    \E session_id \in SessionIds, data \in UserBodies :
        LET outcome == delete_session_route(State, session_id, data)
            by_owner == /\ "user_id" \in DOMAIN data
                        /\ FindById(chat_sessions, session_id) # 0
                        /\ chat_sessions[FindById(chat_sessions, session_id)].user_id
                               = data.user_id
                        /\ outcome.resp.status = 200
        IN  /\ Answered("delete_session", outcome)
            /\ gone' = IF by_owner THEN gone \cup {session_id} ELSE gone
            /\ UNCHANGED <<turns, inflight, tracked_queries, users>>

NextInterleaved ==
    \/ StartSession
    \/ AskBegin
    \/ AskLoad
    \/ AskReplay
    \/ AskStoreUser
    \/ AskAnswer
    \/ UpdateSessionTitle
    \/ ClearSession
    \/ DeleteSessionByAnyone

SpecInterleaved == Init /\ [][NextInterleaved]_vars

\* Asks served at the same time by one process: MaxConcurrent requests can
\* be between their first line and their response, each performing its next
\* operation in any order with the others; no clear or delete runs.
InitConcurrent ==
    /\ chat_sessions = <<>>
    /\ nextId = 0
    /\ news_agent = "None"
    /\ title_generator = "None"
    /\ memory = <<>>
    /\ req = [route |-> "none"]
    /\ resp = [status |-> 0]
    /\ probe = NoProbe
    /\ inflight = [k \in 1..MaxConcurrent |-> Idle]
    /\ gone = {}
    /\ tracked_queries = NoTrackedQueries
    /\ users = <<>>
    /\ turns = [counting |-> TRUE,
                asked |-> [sid \in SessionIds |-> 0],
                since |-> [sid \in SessionIds |-> 0]]

NextConcurrent ==
    \/ StartSession
    \/ AskBegin
    \/ AskLoad
    \/ AskReplay
    \/ AskStoreUser
    \/ AskAnswer

SpecConcurrent == InitConcurrent /\ [][NextConcurrent]_vars

\* get_news_agent() called by requests served at the same time, one read or
\* write of the module globals per step.  A NewsAgentService instance is
\* named by the order in which it was constructed; `probe` records the
\* instances constructed, those assigned to the global, and the instance
\* whose llm the title generator was built with.
AgentInstance(n) == "NewsAgentService" \o ToString(n)

InitStartup ==
    /\ chat_sessions = <<>>
    /\ nextId = 0
    /\ news_agent = "None"
    /\ title_generator = "None"
    /\ memory = <<>>
    /\ req = [route |-> "none"]
    /\ resp = [status |-> 0]
    /\ probe = [route |-> "get_news_agent", constructed |-> <<>>, assigned |-> <<>>,
                generator_llm |-> "None"]
    /\ inflight = [k \in 1..MaxConcurrent |-> Idle]
    /\ gone = {}
    /\ tracked_queries = NoTrackedQueries
    /\ users = <<>>
    /\ turns = [counting |-> FALSE]

\* if news_agent is None:  (and the keys, which are always truthy)
AgentTest ==
    \E k \in DOMAIN inflight :
        /\ inflight[k].pc = "idle"
        /\ inflight' = [inflight EXCEPT ![k] =
               IF news_agent = "None" /\ ApiKeysTruthy THEN [pc |-> "building"]
                                                        ELSE [pc |-> "returning"]]
        /\ UNCHANGED <<chat_sessions, nextId, news_agent, title_generator, memory,
                       req, resp, probe, turns, gone,
                   tracked_queries, users>>

\* NewsAgentService(GOOGLE_API_KEY=..., serper_api_key=...)
AgentConstruct ==
    \E k \in DOMAIN inflight :
        LET agent == AgentInstance(Len(probe.constructed) + 1)
        IN  /\ inflight[k].pc = "building"
            /\ inflight' = [inflight EXCEPT ![k] = [pc |-> "built", agent |-> agent]]
            /\ probe' = [probe EXCEPT !.constructed = Append(@, agent)]
            /\ UNCHANGED <<chat_sessions, nextId, news_agent, title_generator, memory,
                           req, resp, turns, gone,
                   tracked_queries, users>>

\* news_agent = <the instance constructed>
AgentAssign ==
    \E k \in DOMAIN inflight :
        /\ inflight[k].pc = "built"
        /\ news_agent' = inflight[k].agent
        /\ memory' = <<>>
        /\ probe' = [probe EXCEPT !.assigned = Append(@, inflight[k].agent)]
        /\ inflight' = [inflight EXCEPT ![k] = [pc |-> "assigned"]]
        /\ UNCHANGED <<chat_sessions, nextId, title_generator, req, resp, turns, gone,
                   tracked_queries, users>>

\* if title_generator is None:
GeneratorTest ==
    \E k \in DOMAIN inflight :
        /\ inflight[k].pc = "assigned"
        /\ inflight' = [inflight EXCEPT ![k] =
               IF title_generator = "None" THEN [pc |-> "generating"]
                                           ELSE [pc |-> "returning"]]
        /\ UNCHANGED <<chat_sessions, nextId, news_agent, title_generator, memory,
                       req, resp, probe, turns, gone,
                   tracked_queries, users>>

\* title_generator = get_title_generator(news_agent), news_agent the global
GeneratorAssign ==
    \E k \in DOMAIN inflight :
        /\ inflight[k].pc = "generating"
        /\ title_generator' = get_title_generator(news_agent)
        /\ probe' = [probe EXCEPT !.generator_llm = news_agent]
        /\ inflight' = [inflight EXCEPT ![k] = [pc |-> "returning"]]
        /\ UNCHANGED <<chat_sessions, nextId, news_agent, memory, req, resp, turns, gone,
                   tracked_queries, users>>

\* return news_agent
AgentReturn ==
    \E k \in DOMAIN inflight :
        /\ inflight[k].pc = "returning"
        /\ req' = [route |-> "get_news_agent"]
        /\ resp' = [status |-> 0, agent |-> news_agent]
        /\ inflight' = [inflight EXCEPT ![k] = Idle]
        /\ UNCHANGED <<chat_sessions, nextId, news_agent, title_generator, memory,
                       probe, turns, gone,
                   tracked_queries, users>>

NextStartup ==
    \/ AgentTest
    \/ AgentConstruct
    \/ AgentAssign
    \/ GeneratorTest
    \/ GeneratorAssign
    \/ AgentReturn

SpecStartup == InitStartup /\ [][NextStartup]_vars

\* The tracked-query routes, each request served from its first line to its
\* response.
TrackedIds == 0..MaxTracked
CreateBodies == Bodies({"user_id", "query"})
ToggleBodies ==
    UserBodies \cup {[is_active |-> b] : b \in BOOLEAN}
               \cup {[user_id |-> u, is_active |-> b] : u \in CallerIds, b \in BOOLEAN}
                    \cup {[user_id |-> u, is_active |-> b] : u \in CallerIds, b \in BOOLEAN}

\* What the agent run of a tracking query does: it ends with a final answer,
\* with an empty answer, or with a provider error.
TrackedRuns == EndedRuns \cup {agent_executor_invoke([i \in 1..MaxIterations |-> "final"], "")}

HandledTracked(route, outcome) ==
    /\ req' = [route |-> route]
    /\ resp' = outcome.resp
    /\ probe' = NoProbe
    /\ tracked_queries' = outcome.tq
    /\ news_agent' = outcome.st.news_agent
    /\ title_generator' = outcome.st.title_generator
    /\ memory' = outcome.st.memory
    /\ UNCHANGED <<chat_sessions, nextId, turns, inflight, gone, users>>

ListTrackedQueries ==
    \E args \in UserBodies :
        HandledTracked("get_tracked_queries", get_tracked_queries(State, tracked_queries, args))

GetTrackedQueryDetails ==
    \E query_id \in TrackedIds, args \in UserBodies :
        HandledTracked("get_tracked_query_details",
                       get_tracked_query_details(State, tracked_queries, query_id, args))

CreateTrackedQuery ==
    \E data \in CreateBodies :
        IF Truthy(Get(data, "user_id")) /\ Truthy(Get(data, "query"))
        THEN /\ tracked_queries.inserted < MaxTracked
             /\ tracked_queries.entries < MaxEntries
             /\ \E run \in TrackedRuns, serper \in SearchOutcomes :
                    HandledTracked("create_tracked_query",
                                   create_tracked_query(State, tracked_queries, data, run, serper))
        ELSE \E run \in {CHOOSE r \in TrackedRuns : r.raised}, serper \in {[ok |-> FALSE]} :
                 HandledTracked("create_tracked_query",
                                create_tracked_query(State, tracked_queries, data, run, serper))

DeleteTrackedQuery ==
    \E query_id \in TrackedIds, data \in UserBodies :
        HandledTracked("delete_tracked_query",
                       delete_tracked_query(State, tracked_queries, query_id, data))

UpdateTrackedQuery ==
    \E query_id \in TrackedIds, data \in UserBodies :
        LET i == IF Truthy(Get(data, "user_id"))
                 THEN FindTracked(tracked_queries.docs, query_id, data.user_id) ELSE 0
        IN  IF i # 0
            THEN /\ tracked_queries.entries < MaxEntries
                 /\ \E run \in TrackedRuns, serper \in SearchOutcomes :
                        HandledTracked("update_tracked_query",
                                       update_tracked_query(State, tracked_queries, query_id,
                                                            data, run, serper))
            ELSE \E run \in {CHOOSE r \in TrackedRuns : r.raised}, serper \in {[ok |-> FALSE]} :
                     HandledTracked("update_tracked_query",
                                    update_tracked_query(State, tracked_queries, query_id,
                                                         data, run, serper))

ToggleTrackedQueryStatus ==
    \E query_id \in TrackedIds, data \in ToggleBodies :
        HandledTracked("toggle_tracked_query_status",
                       toggle_tracked_query_status(State, tracked_queries, query_id, data))

NextTracked ==
    \/ ListTrackedQueries
    \/ GetTrackedQueryDetails
    \/ CreateTrackedQuery
    \/ DeleteTrackedQuery
    \/ UpdateTrackedQuery
    \/ ToggleTrackedQueryStatus

SpecTracked == Init /\ [][NextTracked]_vars

----------------------------------------------------------------------------
(* api_routes/auth.py: POST /register, served by several threads of one    *)
(* process.  A step is one access to the users collection; the request's   *)
(* own checks go with the access that follows them.                        *)

Emails == {"", "ann@example.com", "bob@example.com"}
Passwords == {"", "secret"}

RegisterBodies ==
    UNION {{d \in [present -> Emails \cup Passwords] :
                /\ "email" \in present => d.email \in Emails
                /\ "password" \in present => d.password \in Passwords}
              : present \in SUBSET {"email", "password"}}

\* werkzeug's generate_password_hash: the method, then the salted digest.
generate_password_hash(password) == "scrypt:32768:8:1$" \o password

\* mongo.db.users.find_one({"email": email}): the first record, or None
find_one_user(collection, email) ==
    LET found == {i \in DOMAIN collection : collection[i].email = email}
    IN  IF found = {} THEN NoneArg
        ELSE Some(collection[CHOOSE i \in found : \A j \in found : i <= j])

InitRegister ==
    /\ chat_sessions = <<>>
    /\ nextId = 0
    /\ news_agent = "None"
    /\ title_generator = "None"
    /\ memory = <<>>
    /\ req = [route |-> "none"]
    /\ resp = [status |-> 0]
    /\ probe = NoProbe
    /\ inflight = [k \in 1..MaxConcurrent |-> Idle]
    /\ gone = {}
    /\ tracked_queries = NoTrackedQueries
    /\ users = <<>>
    /\ turns = [counting |-> FALSE]

\* if not data or not data.get('email') or not data.get('password'): 400
RegisterMissing ==
    \E k \in DOMAIN inflight, data \in RegisterBodies :
        /\ inflight[k].pc = "idle"
        /\ ~(Truthy(Get(data, "email")) /\ Truthy(Get(data, "password")))
        /\ req' = [route |-> "register"]
        /\ resp' = [status |-> 400, body |-> [msg |-> "Missing email or password"]]
        /\ UNCHANGED <<chat_sessions, nextId, news_agent, title_generator, memory,
                       probe, turns, inflight, gone, tracked_queries, users>>

\* existing_user = find_one(...); if existing_user: 400
RegisterFind ==
    \E k \in DOMAIN inflight, data \in RegisterBodies :
        /\ inflight[k].pc = "idle"
        /\ Truthy(Get(data, "email")) /\ Truthy(Get(data, "password"))
        /\ IF find_one_user(users, data.email) # NoneArg
           THEN /\ req' = [route |-> "register"]
                /\ resp' = [status |-> 400, body |-> [msg |-> "User already exists"]]
                /\ UNCHANGED inflight
           ELSE /\ inflight' = [inflight EXCEPT ![k] = [pc |-> "inserting", data |-> data]]
                /\ UNCHANGED <<req, resp>>
        /\ UNCHANGED <<chat_sessions, nextId, news_agent, title_generator, memory,
                       probe, turns, gone, tracked_queries, users>>

\* insert_one({"email", "password_hash"}) and the 201
RegisterInsert ==
    \E k \in DOMAIN inflight :
        /\ inflight[k].pc = "inserting"
        /\ Len(users) < MaxUsers
        /\ users' = Append(users,
                           [email |-> inflight[k].data.email,
                            password_hash |-> generate_password_hash(inflight[k].data.password)])
        /\ req' = [route |-> "register"]
        /\ resp' = [status |-> 201, body |-> [msg |-> "User registered successfully"]]
        /\ inflight' = [inflight EXCEPT ![k] = Idle]
        /\ UNCHANGED <<chat_sessions, nextId, news_agent, title_generator, memory,
                       probe, turns, gone, tracked_queries>>

NextRegister ==
    \/ RegisterMissing
    \/ RegisterFind
    \/ RegisterInsert

SpecRegister == InitRegister /\ [][NextRegister]_vars

----------------------------------------------------------------------------
(* The two services called on their own: a call is drawn with its inputs   *)
(* and with what the provider does during it, then the method is applied.  *)

TitleCalls ==
    {[route |-> "generate_title", user_query |-> q, llm |-> [ok |-> TRUE, content |-> c]] :
         q \in Queries, c \in WideTitleContents}
    \cup {[route |-> "generate_title", user_query |-> q, llm |-> [ok |-> FALSE]] :
              q \in WideQueries}

SearchCalls ==
    {[route |-> "search", serper |-> s, limit |-> n] :
         s \in WideSearchOutcomes, n \in 0..MaxLimit}

\* Collections of up to MaxListed sessions of two owners, in insertion order.
Owners == {"A", "B"}
ListedTitles == {DefaultTitle, "AI Regulation"}
Collections ==
    UNION {{[i \in 1..n |-> [session_id |-> i, user_id |-> owner[i], title |-> title[i],
                             messages |-> <<>>, created_at |-> i]] :
                owner \in [1..n -> Owners], title \in [1..n -> ListedTitles]} :
           n \in 0..MaxListed}

ListCalls ==
    {[route |-> "list_sessions", coll |-> c, user_id |-> u] :
         c \in Collections, u \in Owners \cup {"C", ""}}

InitCalls ==
    /\ chat_sessions = <<>>
    /\ nextId = 0
    /\ news_agent = "None"
    /\ title_generator = "None"
    /\ memory = <<>>
    /\ req \in TitleCalls \cup SearchCalls \cup ListCalls
    /\ resp = [status |-> 0]
    /\ probe = NoProbe
    /\ turns = [counting |-> FALSE]
    /\ inflight = [k \in 1..MaxInflight |-> Idle]
    /\ gone = {}
    /\ tracked_queries = NoTrackedQueries
    /\ users = <<>>

GenerateTitle ==
    /\ req.route = "generate_title"
    /\ probe = NoProbe
    /\ probe' = [route |-> "generate_title"] @@ generate_title_run(req.user_query, req.llm)
    /\ UNCHANGED <<chat_sessions, nextId, news_agent, title_generator, memory, req, resp,
                   turns, inflight, gone,
                   tracked_queries, users>>

Search ==
    /\ req.route = "search"
    /\ probe = NoProbe
    /\ probe' = [route |-> "search", results |-> search(req.serper, req.limit)]
    /\ UNCHANGED <<chat_sessions, nextId, news_agent, title_generator, memory, req, resp,
                   turns, inflight, gone,
                   tracked_queries, users>>

ListOwned ==
    /\ req.route = "list_sessions"
    /\ probe = NoProbe
    /\ probe' = [route |-> "list_sessions", sessions |-> list_sessions(req.coll, req.user_id)]
    /\ UNCHANGED <<chat_sessions, nextId, news_agent, title_generator, memory, req, resp,
                   turns, inflight, gone,
                   tracked_queries, users>>

NextCalls ==
    \/ GenerateTitle
    \/ Search
    \/ ListOwned

SpecCalls == InitCalls /\ [][NextCalls]_vars

----------------------------------------------------------------------------
(* Properties.  A handler is judged on every request it can receive in     *)
(* every reachable state: its outcome there is compared with the state it  *)
(* started from.                                                           *)

\* The stored document of a session id (the first one found by id).
SessionOf(coll, sid) == coll[FindById(coll, sid)]
Exists(coll, sid) == FindById(coll, sid) # 0

\* Requests that carry every field of their route.
FullAskBodies == {d \in AskBodies : DOMAIN d = {"user_id", "query"}}
FullUserBodies == {d \in UserBodies : DOMAIN d = {"user_id"}}
FullTitleBodies == {d \in TitleBodies : DOMAIN d = {"user_id", "title"}}

\* The caller's user_id is present and is not the stored owner of the session.
ForeignCaller(sid, data) ==
    /\ "user_id" \in DOMAIN data
    /\ Exists(chat_sessions, sid)
    /\ SessionOf(chat_sessions, sid).user_id # data.user_id

\* The outcome leaves the session stored, with the messages and title it had.
SessionKept(outcome, sid) ==
    /\ Exists(outcome.st.chat_sessions, sid)
    /\ SessionOf(outcome.st.chat_sessions, sid).messages = SessionOf(chat_sessions, sid).messages
    /\ SessionOf(outcome.st.chat_sessions, sid).title = SessionOf(chat_sessions, sid).title

\* C1: an ask on an existing session by a user_id other than the stored owner
\* is answered 403 "Unauthorized access to session", and the session's stored
\* messages and title are what they were before the call.
C1_UnauthorizedAsk ==
    \A sid \in SessionIds, data \in FullAskBodies :
        ForeignCaller(sid, data) =>
            \A llm \in TitleOutcomes, run \in SteadyRuns, serper \in SearchOutcomes :
                LET o == ask_session(State, sid, data, llm, run, serper)
                IN  /\ o.resp.status = 403
                    /\ o.resp.body = [success |-> FALSE,
                                      error |-> "Unauthorized access to session"]
                    /\ SessionKept(o, sid)

\* An ask by a foreign caller has been refused while a session with stored
\* messages and a generated title is stored.
C1_Witness ==
    /\ req.route = "ask_session"
    /\ resp.status = 403
    /\ chat_sessions # <<>>
    /\ \A i \in DOMAIN chat_sessions :
           chat_sessions[i].messages # <<>> /\ chat_sessions[i].title # DefaultTitle

\* C2: whatever session route a foreign caller uses (an empty user_id
\* included), the response carries neither the session's messages nor its
\* title, and the session keeps its messages and title and stays stored.
C2_OwnerCheckedEverywhere ==
    \A sid \in SessionIds, u \in FullUserBodies :
        ForeignCaller(sid, u) =>
            /\ \A q \in Queries, llm \in TitleOutcomes, run \in SteadyRuns,
                  serper \in SearchOutcomes :
                   LET o == ask_session(State, sid, [query |-> q] @@ u, llm, run, serper)
                   IN  o.resp.status # 200 /\ SessionKept(o, sid)
            /\ LET o == get_session_route(State, sid, u)
               IN  o.resp.status # 200 /\ SessionKept(o, sid)
            /\ LET o == session_history(State, sid, u)
               IN  o.resp.status # 200 /\ SessionKept(o, sid)
            /\ \A t \in NewTitles :
                   LET o == update_session_title_route(State, sid, [title |-> t] @@ u)
                   IN  o.resp.status # 200 /\ SessionKept(o, sid)
            /\ SessionKept(clear_session_route(State, sid, u), sid)
            /\ SessionKept(delete_session_route(State, sid, u), sid)

\* The caller's user_id is the stored owner of the session: the ask passes
\* validation, the existence check and the ownership check.
OwnerAsk(sid, data) ==
    /\ Exists(chat_sessions, sid)
    /\ SessionOf(chat_sessions, sid).user_id = data.user_id

\* user-role and assistant-role ("ai") messages alternate, the first a user's.
Alternates(messages) ==
    \A k \in DOMAIN messages : messages[k].role = IF k % 2 = 1 THEN "user" ELSE "ai"

\* C3: after N asks answered for a session, its stored messages are exactly
\* 2N, alternating user and assistant, starting with a user message.
C3_TwoMessagesPerAsk ==
    turns.counting =>
        \A i \in DOMAIN chat_sessions :
            /\ Len(chat_sessions[i].messages) = 2 * turns.asked[chat_sessions[i].session_id]
            /\ Alternates(chat_sessions[i].messages)

\* C3 as amended: the stored messages are exactly twice the asks answered (with
\* success true or false) since the session was created or last cleared,
\* alternating user and assistant, starting with a user message.
C3_TwoMessagesPerAskSinceClear ==
    turns.counting =>
        \A i \in DOMAIN chat_sessions :
            /\ Len(chat_sessions[i].messages) = 2 * turns.since[chat_sessions[i].session_id]
            /\ Alternates(chat_sessions[i].messages)

\* A session was asked, cleared and asked again: it holds the one later turn.
C3_Witness ==
    /\ turns.counting
    /\ \E i \in DOMAIN chat_sessions :
           /\ turns.asked[chat_sessions[i].session_id] = 2
           /\ turns.since[chat_sessions[i].session_id] = 1
           /\ Len(chat_sessions[i].messages) = 2

\* C4: the first ask on a session without messages returns a title, the
\* stored title is that title, and it is no longer "New Conversation".
C4_FirstAskSetsNewTitle ==
    \A sid \in SessionIds, data \in FullAskBodies :
        (OwnerAsk(sid, data) /\ SessionOf(chat_sessions, sid).messages = <<>>) =>
            \A llm \in TitleOutcomes, run \in SteadyRuns, serper \in SearchOutcomes :
                LET o == ask_session(State, sid, data, llm, run, serper)
                IN  /\ "title" \in DOMAIN o.resp.body
                    /\ SessionOf(o.st.chat_sessions, sid).title = o.resp.body.title
                    /\ SessionOf(o.st.chat_sessions, sid).title # DefaultTitle

\* What is left of a provider's title text: surrounding blanks and quotes gone.
Bare(content) == Remove(Remove(Strip(content), "\""), "'")

\* C4 as amended: the first ask on a session without messages returns a
\* title and stores that same title; it is "New Conversation" only when the
\* provider's own text is, or when the provider failed and the query is.
C4_FirstAskSetsTitle ==
    \A sid \in SessionIds, data \in FullAskBodies :
        (OwnerAsk(sid, data) /\ SessionOf(chat_sessions, sid).messages = <<>>) =>
            \A llm \in TitleOutcomes, run \in SteadyRuns, serper \in SearchOutcomes :
                LET o == ask_session(State, sid, data, llm, run, serper)
                    stored == SessionOf(o.st.chat_sessions, sid).title
                IN  /\ "title" \in DOMAIN o.resp.body
                    /\ stored = o.resp.body.title
                    /\ stored = DefaultTitle =>
                           IF llm.ok THEN Bare(llm.content) = DefaultTitle
                                     ELSE data.query = DefaultTitle

\* A first ask has returned a title that is stored and is not the default.
C4_Witness ==
    /\ req.route = "ask_session"
    /\ resp.status = 200
    /\ "title" \in DOMAIN resp.body
    /\ resp.body.title # DefaultTitle
    /\ SessionOf(chat_sessions, resp.body.session_id).title = resp.body.title

\* C5: once a session id has had an answered ask, every later ask on it
\* returns no title field and leaves the stored title as it was.
C5_TitleGeneratedOnce ==
    turns.counting =>
        \A sid \in SessionIds, data \in FullAskBodies :
            (OwnerAsk(sid, data) /\ turns.asked[sid] >= 1) =>
                \A llm \in TitleOutcomes, run \in SteadyRuns, serper \in SearchOutcomes :
                    LET o == ask_session(State, sid, data, llm, run, serper)
                    IN  /\ "title" \notin DOMAIN o.resp.body
                        /\ SessionOf(o.st.chat_sessions, sid).title
                               = SessionOf(chat_sessions, sid).title

\* The memory entry a stored message is replayed as.
Replayed(msg) == [type |-> IF msg.role = "user" THEN "human" ELSE "ai",
                  content |-> msg.content]

\* C6: when the agent's answer is invoked, the memory is the session's stored
\* messages as loaded for the turn: as many entries, in the same order, each
\* with the role and content of its message, and nothing else.
C6_MemoryIsStoredHistory ==
    \A sid \in SessionIds, data \in FullAskBodies :
        OwnerAsk(sid, data) =>
            \A llm \in TitleOutcomes, run \in SteadyRuns, serper \in SearchOutcomes :
                LET o == ask_session(State, sid, data, llm, run, serper)
                    stored == SessionOf(chat_sessions, sid).messages
                    mem == o.probe.memory_at_answer
                IN  /\ o.probe.history = stored
                    /\ Len(mem) = Len(stored)
                    /\ \A k \in DOMAIN stored : mem[k] = Replayed(stored[k])

\* A turn has replayed a stored history of two messages into a memory that
\* still held the turn before, and was answered.
C6_Witness ==
    /\ req.route = "ask_session"
    /\ probe.route = "ask_session"
    /\ Len(probe.history) = 2
    /\ Len(probe.memory_at_answer) = 2
    /\ Len(memory) = 4

\* C7: an ask that passes validation and the checks appends to the session
\* one user message holding the query and then one assistant message holding
\* the response text, whether the answer succeeded or failed.
C7_BothMessagesPersisted ==
    \A sid \in SessionIds, data \in FullAskBodies :
        OwnerAsk(sid, data) =>
            \A llm \in TitleOutcomes, run \in SteadyRuns, serper \in SearchOutcomes :
                LET o == ask_session(State, sid, data, llm, run, serper)
                    before == SessionOf(chat_sessions, sid).messages
                    after == SessionOf(o.st.chat_sessions, sid).messages
                    n == Len(before)
                IN  /\ o.resp.status = 200
                    /\ Len(after) = n + 2
                    /\ SubSeq(after, 1, n) = before
                    /\ after[n + 1] = [role |-> "user", content |-> data.query]
                    /\ after[n + 2].role = "ai"
                    /\ after[n + 2].content = o.resp.body.response
                    /\ ~o.resp.body.success => o.resp.body.response = Apology

\* A failed answer has been persisted as the assistant turn.
C7_Witness ==
    /\ req.route = "ask_session"
    /\ resp.status = 200
    /\ ~resp.body.success
    /\ LET messages == SessionOf(chat_sessions, resp.body.session_id).messages
       IN  /\ Len(messages) >= 2
           /\ messages[Len(messages) - 1].role = "user"
           /\ messages[Len(messages)] = [role |-> "ai", content |-> Apology]

\* C8: when the provider asks for a tool action in each of the 3 rounds, the
\* answer is success=false with the apology text.
C8_ExhaustedLoopFails ==
    (/\ req.route = "ask"
     /\ probe.route = "ask"
     /\ \A k \in 1..MaxIterations : probe.script[k] = "action") =>
        /\ resp.body.success = FALSE
        /\ resp.body.response = Apology

\* The round in which the provider call fails: the first "error" that no final
\* answer precedes (0 when the run meets none).
FailingRound(script) ==
    LET ends == {k \in 1..MaxIterations : script[k] \in {"error", "final"}}
        first == CHOOSE k \in ends : \A j \in ends : k <= j
    IN  IF ends # {} /\ script[first] = "error" THEN first ELSE 0

\* C9: when a provider call fails during the answer, the result is
\* success=false with the apology text, returned as a normal result; the
\* failed call was the last one made, and the memory is as before the call.
C9_ProviderFailureIsGraceful ==
    (/\ req.route = "ask"
     /\ probe.route = "ask"
     /\ FailingRound(probe.script) # 0) =>
        /\ resp.status = 200
        /\ resp.body.success = FALSE
        /\ resp.body.response = Apology
        /\ probe.llm_calls = FailingRound(probe.script)
        /\ memory = probe.memory_before

\* A provider call failed in a later round, with earlier turns in the memory.
C9_Witness ==
    /\ req.route = "ask"
    /\ probe.route = "ask"
    /\ FailingRound(probe.script) = 2
    /\ ~resp.body.success
    /\ memory # <<>>

\* C10: an ask without query or user_id is answered 400 and an ask on a
\* session id that is not stored 404; neither creates a session, changes a
\* stored message or title, or touches the agent's memory.
C10_RefusedAskHasNoEffect ==
    \A sid \in SessionIds, data \in AskBodies :
        \A llm \in TitleOutcomes, run \in SteadyRuns, serper \in SearchOutcomes :
            LET o == ask_session(State, sid, data, llm, run, serper)
                untouched == /\ o.st.chat_sessions = chat_sessions
                             /\ o.st.nextId = nextId
                             /\ o.st.memory = memory
            IN  /\ data \notin FullAskBodies => o.resp.status = 400 /\ untouched
                /\ (data \in FullAskBodies /\ ~Exists(chat_sessions, sid)) =>
                       o.resp.status = 404 /\ untouched

\* An ask on an unknown session id was refused while the memory held a turn.
C10_Witness ==
    /\ req.route = "ask_session"
    /\ resp.status = 404
    /\ memory # <<>>
    /\ chat_sessions # <<>>

\* The session is stored with no messages and otherwise as it is now.
ClearedOf(coll, sid) ==
    /\ Exists(coll, sid)
    /\ SessionOf(coll, sid) = [SessionOf(chat_sessions, sid) EXCEPT !.messages = <<>>]

\* C11: a clear by the owner, and a second one after it, each answer 200 and
\* leave the session without messages and with the title, owner, id and
\* creation time it had before the first; the second changes nothing.
C11_ClearIsIdempotent ==
    \A sid \in SessionIds, data \in FullUserBodies :
        (Exists(chat_sessions, sid) /\ SessionOf(chat_sessions, sid).user_id = data.user_id) =>
            LET once == clear_session_route(State, sid, data)
                twice == clear_session_route(once.st, sid, data)
            IN  /\ once.resp.status = 200
                /\ twice.resp.status = 200
                /\ ClearedOf(once.st.chat_sessions, sid)
                /\ ClearedOf(twice.st.chat_sessions, sid)
                /\ twice.st = once.st

\* The only session ever started was asked and answered, then cleared: it is
\* stored without messages, under a title that is not the default.
C11_Witness ==
    /\ req.route = "clear_session"
    /\ resp.status = 200
    /\ nextId = 1
    /\ memory # <<>>
    /\ Len(chat_sessions) = 1
    /\ chat_sessions[1].messages = <<>>
    /\ chat_sessions[1].title # DefaultTitle

Range(seq) == {seq[i] : i \in DOMAIN seq}

\* Requests on a session id, by any caller that names a user.
NamedUserBodies == {d \in FullUserBodies : d.user_id # ""}

\* C12: once its owner has deleted a session, the session id is absent from
\* the collection in every later state, whatever requests interleave (an ask
\* that passed its ownership check before the deletion and stores its
\* messages afterwards does not bring it back): get-session answers 404, an
\* ask answers 404 and no user's list of sessions holds the id.
C12_GoneIsAbsorbing ==
    \A sid \in gone :
        /\ \A i \in DOMAIN chat_sessions : chat_sessions[i].session_id # sid
        /\ \A args \in NamedUserBodies :
               /\ get_session_route(State, sid, args).resp.status = 404
               /\ \A entry \in Range(list_sessions(chat_sessions, args.user_id)) :
                      entry.session_id # sid
        /\ \A data \in FullAskBodies, llm \in TitleReplies, run \in EndedRuns,
                serper \in SearchOutcomes :
               LET o == ask_session(State, sid, data, llm, run, serper)
               IN  o.resp.status = 404 /\ o.st.chat_sessions = chat_sessions

\* An ask that passed its checks has stored its messages and answered 200
\* on a session that was deleted while it was being served.
C12_Witness ==
    /\ req.route = "ask_session"
    /\ resp.status = 200
    /\ resp.body.session_id \in gone

\* The session ids drawn so far: those of the stored and of the earlier sessions.
DrawnIds == 1..nextId

\* C13: no two stored sessions have the same session id, and a start-session
\* request appends one session whose id no stored or earlier session had,
\* leaving every stored session as it was.
C13_SessionIdsUnique ==
    /\ \A i, j \in DOMAIN chat_sessions :
           i # j => chat_sessions[i].session_id # chat_sessions[j].session_id
    /\ \A i \in DOMAIN chat_sessions : chat_sessions[i].session_id \in DrawnIds
    /\ \A data \in StartBodies, llm \in TitleOutcomes :
           "user_id" \in DOMAIN data =>
               LET after == start_session(State, data, llm).st.chat_sessions
                   n == Len(chat_sessions)
               IN  /\ Len(after) = n + 1
                   /\ SubSeq(after, 1, n) = chat_sessions
                   /\ after[n + 1].session_id \notin DrawnIds
                   /\ \A i \in 1..n : after[i].session_id # after[n + 1].session_id

\* A session was started after the first one was deleted: the only stored
\* session has the second id drawn.
C13_Witness ==
    /\ req.route = "start_session"
    /\ resp.status = 200
    /\ nextId = 2
    /\ Len(chat_sessions) = 1
    /\ chat_sessions[1].session_id = 2

\* C14: a start-session request with a user_id stores a new session owned by
\* that user, without messages, and returns its id with the title stored for
\* it when the call returns: "New Conversation" without an initial query,
\* the generated title of the initial query with one.
C14_StartSessionReturnsStoredTitle ==
    \A data \in StartBodies, llm \in TitleOutcomes :
        "user_id" \in DOMAIN data =>
            LET o == start_session(State, data, llm)
                sid == o.resp.body.session_id
                stored == SessionOf(o.st.chat_sessions, sid)
            IN  /\ o.resp.status = 200
                /\ o.resp.body.success
                /\ ~Exists(chat_sessions, sid)
                /\ Exists(o.st.chat_sessions, sid)
                /\ stored.user_id = data.user_id
                /\ stored.messages = <<>>
                /\ stored.title = o.resp.body.title
                /\ "initial_query" \notin DOMAIN data => stored.title = "New Conversation"
                /\ "initial_query" \in DOMAIN data =>
                       stored.title = generate_title(data.initial_query, llm)

\* A session was started with an initial query: its generated title was
\* returned and is stored, and it has no messages.
C14_Witness ==
    /\ req.route = "start_session"
    /\ resp.status = 200
    /\ resp.body.title \notin {DefaultTitle, ""}
    /\ Exists(chat_sessions, resp.body.session_id)
    /\ SessionOf(chat_sessions, resp.body.session_id).title = resp.body.title
    /\ SessionOf(chat_sessions, resp.body.session_id).messages = <<>>

\* Title replies of 30 characters and more.
LongTitleOutcomes ==
    {[ok |-> TRUE, content |-> Prefix(TitleText, n)] : n \in 30..MaxTitleText}

\* Every title stored in the collection has at most 30 characters.
TitlesFit(coll) == \A i \in DOMAIN coll : Len(coll[i].title) <= 30

\* C15: in every state reached through start-session, ask, title-update and
\* clear requests every stored title has at most 30 characters, and a start
\* or a first ask whose title reply is longer stores at most 30 as well.
C15_StoredTitlesFit ==
    /\ TitlesFit(chat_sessions)
    /\ \A data \in StartBodies, llm \in LongTitleOutcomes :
           TitlesFit(start_session(State, data, llm).st.chat_sessions)
    /\ \A sid \in SessionIds, data \in FullAskBodies, llm \in LongTitleOutcomes :
           \A run \in EndedRuns, serper \in SearchOutcomes :
               TitlesFit(ask_session(State, sid, data, llm, run, serper).st.chat_sessions)

\* A title-update request with a longer title was answered 200 and a title
\* of exactly 30 characters is stored.
C15_Witness ==
    /\ req.route = "update_session_title"
    /\ resp.status = 200
    /\ \E i \in DOMAIN chat_sessions : Len(chat_sessions[i].title) = 30

\* Characters and positions of a string.
Char(s, i) == SubSeq(s, i, i)
QuoteChars == {"'", "\""}
Unquoted(s) == {i \in 1..Len(s) : Char(s, i) \notin QuoteChars}
Rank(keep, i) == Cardinality({j \in keep : j <= i})

\* The text between the first and the last character that is not blank.
Inner(s) ==
    LET solid == {i \in 1..Len(s) : ~IsSpace(Char(s, i))}
    IN  IF solid = {} THEN ""
        ELSE SubSeq(s, CHOOSE i \in solid : \A j \in solid : i <= j,
                       CHOOSE i \in solid : \A j \in solid : j <= i)

\* C16: generate_title calls the provider once and returns the reply without
\* its surrounding blanks and without any single or double quote, cut to its
\* first 27 characters followed by "..." when that text has more than 30
\* characters; the title has at most 30 characters and no quote.
C16_GeneratedTitleIsCleanedReply ==
    (probe.route = "generate_title" /\ req.llm.ok) =>
        LET inner == Inner(req.llm.content)
            keep == Unquoted(inner)
            title == probe.title
        IN  /\ probe.llm_calls = 1
            /\ ~probe.raised
            /\ Len(title) <= 30
            /\ Unquoted(title) = 1..Len(title)
            /\ IF Cardinality(keep) <= 30
               THEN /\ Len(title) = Cardinality(keep)
                    /\ \A i \in keep : Char(title, Rank(keep, i)) = Char(inner, i)
               ELSE /\ Len(title) = 30
                    /\ SubSeq(title, 28, 30) = "..."
                    /\ \A i \in keep :
                           Rank(keep, i) <= 27 => Char(title, Rank(keep, i)) = Char(inner, i)

\* A reply with blanks around it and quotes inside, of more than 30
\* characters without them, was cut.
C16_Witness ==
    /\ probe.route = "generate_title"
    /\ req.llm.ok
    /\ Len(req.llm.content) > 30
    /\ IsSpace(Char(req.llm.content, 1))
    /\ Cardinality(Unquoted(Inner(req.llm.content))) > 30
    /\ Cardinality(Unquoted(Inner(req.llm.content))) < Len(Inner(req.llm.content))
    /\ Len(probe.title) = 30

\* C17: when the provider call fails, generate_title raises nothing and
\* returns the query itself when it has at most 30 characters, its first 27
\* characters followed by "..." otherwise.
C17_FallbackTitleIsQuery ==
    (probe.route = "generate_title" /\ ~req.llm.ok) =>
        /\ ~probe.raised
        /\ IF Len(req.user_query) <= 30
           THEN probe.title = req.user_query
           ELSE probe.title = SubSeq(req.user_query, 1, 27) \o "..."

\* The provider failed on a query of 31 characters, which was cut.
C17_Witness ==
    /\ probe.route = "generate_title"
    /\ ~req.llm.ok
    /\ Len(req.user_query) = 31
    /\ Len(probe.title) = 30

\* C18: search returns the empty list when the request fails, and otherwise
\* the first `limit` results of the reply in the reply's order, all of them
\* when there are fewer; the sources of an answer are 0 to 5 items.
C18_SearchReturnsFirstResults ==
    probe.route = "search" =>
        LET found == IF req.serper.ok /\ "organic" \in DOMAIN req.serper
                     THEN req.serper.organic ELSE <<>>
            results == probe.results
        IN  /\ ~req.serper.ok => results = <<>>
            /\ Len(results) = IF Len(found) < req.limit THEN Len(found) ELSE req.limit
            /\ \A k \in DOMAIN results : results[k] = found[k]
            /\ \A query \in Queries, run \in SteadyRuns :
                   LET result == generate_response(<<>>, query, run, req.serper).result
                   IN  result.success => Len(result.sources) \in 0..5

\* A reply of more than five results was searched with limit 5.
C18_Witness ==
    /\ probe.route = "search"
    /\ req.serper.ok
    /\ "organic" \in DOMAIN req.serper
    /\ Len(req.serper.organic) > 5
    /\ req.limit = 5
    /\ Len(probe.results) = 5

\* C19: list_sessions returns exactly the stored sessions of the user: one
\* entry for each of them and none for a session of another user, each entry
\* with the session's id, creation time and stored title; the sessions route
\* returns that list to a caller that names a user.
C19_ListIsOwnersSessions ==
    probe.route = "list_sessions" =>
        LET coll == req.coll
            out == probe.sessions
            owned == {i \in DOMAIN coll : coll[i].user_id = req.user_id}
        IN  /\ Len(out) = Cardinality(owned)
            /\ \A i \in owned :
                   \E k \in DOMAIN out :
                       /\ out[k] = [session_id |-> coll[i].session_id,
                                    created_at |-> coll[i].created_at,
                                    title |-> coll[i].title]
                       /\ \A m \in DOMAIN out :
                              out[m].session_id = coll[i].session_id => m = k
            /\ \A k \in DOMAIN out :
                   \E i \in owned : out[k].session_id = coll[i].session_id
            /\ req.user_id # "" =>
                   LET o == get_sessions_route([chat_sessions |-> coll],
                                               [user_id |-> req.user_id])
                   IN  /\ o.resp.status = 200
                       /\ o.resp.body.sessions = out
                       /\ o.st.chat_sessions = coll

\* A collection holding sessions of both users was listed for one of them.
C19_Witness ==
    /\ probe.route = "list_sessions"
    /\ Len(req.coll) = 3
    /\ Len(probe.sessions) = 2
    /\ req.coll[2].user_id # req.user_id
    /\ req.coll[3].title # DefaultTitle

\* The optional owner arguments a caller can pass.
OwnerArgs == {NoneArg} \cup {Some(u) : u \in CallerIds}

\* C20: get_messages returns the stored messages of the session, in order,
\* when the session exists and no user_id is given or the given one is the
\* stored owner; it returns the empty list when the session is absent or a
\* given user_id differs from the stored owner.
C20_GetMessagesChecksOwner ==
    \A sid \in SessionIds, user_id \in OwnerArgs :
        LET out == get_messages(chat_sessions, sid, user_id)
        IN  IF /\ Exists(chat_sessions, sid)
               /\ (user_id = NoneArg \/ user_id[1] = SessionOf(chat_sessions, sid).user_id)
            THEN out = SessionOf(chat_sessions, sid).messages
            ELSE out = <<>>

\* a is the beginning of b
IsPrefix(a, b) == Len(a) <= Len(b) /\ SubSeq(b, 1, Len(a)) = a

\* The arguments add_message is called with: either role, the texts a turn
\* stores, and the metadata the routes pass (none, or the sources).
MessageRoles == {"user", "ai"}
MessageContents == Queries \cup {Apology}
MessageMetadata == {NoneArg, Some([sources |-> <<"article1">>])}

\* add_message on a stored session id appends one message with the given
\* role and content to that session and changes nothing else; on an id that
\* is not stored it changes nothing.
C21_AppendsOne ==
    \A sid \in SessionIds, role \in MessageRoles,
       content \in MessageContents, metadata \in MessageMetadata :
        LET out == add_message(chat_sessions, sid, role, content, metadata)
        IN  IF ~Exists(chat_sessions, sid) THEN out = chat_sessions
            ELSE /\ Len(out) = Len(chat_sessions)
                 /\ \A i \in DOMAIN chat_sessions :
                        IF i = FindById(chat_sessions, sid)
                        THEN /\ Len(out[i].messages) = Len(chat_sessions[i].messages) + 1
                             /\ IsPrefix(chat_sessions[i].messages, out[i].messages)
                             /\ out[i].messages[Len(out[i].messages)].role = role
                             /\ out[i].messages[Len(out[i].messages)].content = content
                             /\ [out[i] EXCEPT !.messages = <<>>]
                                    = [chat_sessions[i] EXCEPT !.messages = <<>>]
                        ELSE out[i] = chat_sessions[i]

\* A request other than a clear or a delete leaves every stored session
\* stored, with the messages it held as the beginning of those it holds.
C21_MessagesKept ==
    req'.route \notin {"clear_session", "delete_session"} =>
        \A i \in DOMAIN chat_sessions :
            /\ Exists(chat_sessions', chat_sessions[i].session_id)
            /\ IsPrefix(chat_sessions[i].messages,
                        SessionOf(chat_sessions', chat_sessions[i].session_id).messages)

\* C21: the message list of a session is append-only.  add_message on an
\* existing session adds exactly one message, at the end, with the role and
\* content passed, and leaves the earlier messages and the other sessions as
\* they were; on an unknown session id it changes nothing and creates no
\* session; and no request other than clear and delete removes, reorders or
\* edits a stored message.
C21_MessagesAppendOnly == []C21_AppendsOne /\ [][C21_MessagesKept]_vars

\* A second turn has been appended after the first one's messages.
C21_Witness ==
    /\ req.route = "ask_session"
    /\ resp.status = 200
    /\ \E i \in DOMAIN chat_sessions :
          /\ Len(chat_sessions[i].messages) = 4
          /\ chat_sessions[i].messages[3].role = "user"
          /\ chat_sessions[i].messages[4].role = "ai"

\* C22: a clear or a delete request whose session id is not stored, or whose
\* user_id is non-empty and is not the stored owner, leaves every stored
\* session as it was and is still answered 200 with success true.
C22_MissedClearAndDeleteSucceed ==
    \A sid \in SessionIds, data \in FullUserBodies :
        (/\ data.user_id # ""
         /\ \/ ~Exists(chat_sessions, sid)
            \/ SessionOf(chat_sessions, sid).user_id # data.user_id)
        => LET cleared == clear_session_route(State, sid, data)
               deleted == delete_session_route(State, sid, data)
           IN  /\ cleared.st.chat_sessions = chat_sessions
               /\ cleared.resp.status = 200 /\ cleared.resp.body.success
               /\ deleted.st.chat_sessions = chat_sessions
               /\ deleted.resp.status = 200 /\ deleted.resp.body.success

\* A delete request was answered 200 and no session was ever removed, while
\* a session with a turn is stored.
C22_Witness ==
    /\ req.route = "delete_session"
    /\ resp.status = 200
    /\ resp.body.success
    /\ nextId = Len(chat_sessions)
    /\ \E i \in DOMAIN chat_sessions : Len(chat_sessions[i].messages) = 2

\* The titles update_session_title is called with: a new one, the default
\* one, and the ones stored.
GivenTitles == {Truncate(t) : t \in NewTitles} \cup {DefaultTitle}
                   \cup {chat_sessions[i].title : i \in DOMAIN chat_sessions}

C24_OwnerReadsHistory ==
    \A sid \in SessionIds, args \in FullUserBodies :
        LET out == session_history(State, sid, args)
        IN  /\ (/\ Exists(chat_sessions, sid)
                /\ args.user_id = SessionOf(chat_sessions, sid).user_id)
               => /\ out.resp.status = 200
                  /\ out.resp.body.success
                  /\ out.resp.body.history = SessionOf(chat_sessions, sid).messages
            /\ out.resp.status = 403
               => /\ Exists(chat_sessions, sid)
                  /\ args.user_id # SessionOf(chat_sessions, sid).user_id

\* C25: a title update by the stored owner of an existing session is always
\* answered 200 with the title cut to 30 characters (27 and "..."), which is
\* then the stored title; and the not-found-or-unauthorized error is returned
\* only when no session has the id and the owner given.
C25_OwnerRetitles ==
    \A sid \in SessionIds, data \in FullTitleBodies :
        LET out == update_session_title_route(State, sid, data)
            cut == IF Len(data.title) > 30
                   THEN SubSeq(data.title, 1, 27) \o "..." ELSE data.title
        IN  /\ (/\ Exists(chat_sessions, sid)
                /\ data.user_id = SessionOf(chat_sessions, sid).user_id)
               => /\ out.resp.status = 200
                  /\ out.resp.body.success
                  /\ out.resp.body.title = cut
                  /\ SessionOf(out.st.chat_sessions, sid).title = cut
            /\ out.resp.status = 404
               => ~\E i \in DOMAIN chat_sessions :
                      /\ chat_sessions[i].session_id = sid
                      /\ chat_sessions[i].user_id = data.user_id

\* The asks being served on a session id.
AsksOn(sid) == {k \in DOMAIN inflight : inflight[k] # Idle /\ inflight[k].session_id = sid}

\* The ask in slot k is about to invoke the agent's answer, no other ask is
\* being served on its session, and the session stores what the ask loaded
\* followed by its own user message: only asks on other sessions have run
\* since it loaded its history.
AloneOnSession(k) ==
    /\ inflight[k].pc = "asked"
    /\ AsksOn(inflight[k].session_id) = {k}
    /\ Exists(chat_sessions, inflight[k].session_id)
    /\ LET stored == SessionOf(chat_sessions, inflight[k].session_id).messages
       IN  /\ Len(stored) = Len(inflight[k].history) + 1
           /\ IsPrefix(inflight[k].history, stored)

\* C26: with asks on different sessions served at the same time by one
\* process, when the agent's answer is about to be invoked for a session the
\* memory holds exactly the messages replayed from that session's stored
\* history, and no message of another session.
C26_MemoryIsOwnSessionsHistory ==
    \A k \in DOMAIN inflight :
        AloneOnSession(k) =>
            /\ Len(memory) = Len(inflight[k].history)
            /\ \A n \in DOMAIN memory : memory[n] = Replayed(inflight[k].history[n])

\* The messages of a role among the first n of a list.
CountRole(messages, role, n) ==
    Cardinality({j \in 1..n : messages[j].role = role})

\* C27: with asks served at the same time on the same existing session (and
\* no clear or delete), every append takes effect once.  A session holds one
\* user and one assistant message per ask answered on it, plus the user
\* message of each ask that has stored it and is not answered yet: when the
\* K asks have completed it holds exactly 2K messages, none lost and none
\* twice.  In every beginning of the list there are at least as many user
\* messages as assistant messages: each ask's user message precedes its own
\* assistant message.
C27_ConcurrentAppendsAllStored ==
    \A i \in DOMAIN chat_sessions :
        LET sid == chat_sessions[i].session_id
            messages == chat_sessions[i].messages
            answered == turns.asked[sid]
            pending == Cardinality({k \in AsksOn(sid) : inflight[k].pc = "asked"})
        IN  /\ Len(messages) = 2 * answered + pending
            /\ CountRole(messages, "user", Len(messages)) = answered + pending
            /\ CountRole(messages, "ai", Len(messages)) = answered
            /\ \A n \in 1..Len(messages) :
                   CountRole(messages, "ai", n) <= CountRole(messages, "user", n)
            /\ AsksOn(sid) = {} => Len(messages) = 2 * answered

\* Two asks on one session were served at the same time and both completed:
\* the two user messages were stored before either answer.
C27_Witness ==
    /\ \A k \in DOMAIN inflight : inflight[k] = Idle
    /\ \E i \in DOMAIN chat_sessions :
          /\ turns.asked[chat_sessions[i].session_id] = 2
          /\ Len(chat_sessions[i].messages) = 4
          /\ chat_sessions[i].messages[1].role = "user"
          /\ chat_sessions[i].messages[2].role = "user"
          /\ chat_sessions[i].messages[3].role = "ai"
          /\ chat_sessions[i].messages[4].role = "ai"

\* The messages stored for a session id, none when it is not stored.
StoredMessages(coll, sid) == IF Exists(coll, sid) THEN SessionOf(coll, sid).messages ELSE <<>>

\* The messages of every stored session are left as they are.
MessagesUnchanged ==
    /\ Len(chat_sessions') = Len(chat_sessions)
    /\ \A i \in DOMAIN chat_sessions :
           [chat_sessions'[i] EXCEPT !.title = ""] = [chat_sessions[i] EXCEPT !.title = ""]

\* The one message a step adds to the session of an ask, all else unchanged.
MessageAdded(sid, role, content) ==
    /\ Len(chat_sessions') = Len(chat_sessions)
    /\ \A i \in DOMAIN chat_sessions :
           IF i = FindById(chat_sessions, sid)
           THEN /\ Len(chat_sessions'[i].messages) = Len(chat_sessions[i].messages) + 1
                /\ IsPrefix(chat_sessions[i].messages, chat_sessions'[i].messages)
                /\ chat_sessions'[i].messages[Len(chat_sessions'[i].messages)].role = role
                /\ chat_sessions'[i].messages[Len(chat_sessions'[i].messages)].content = content
                /\ chat_sessions'[i].title = chat_sessions[i].title
           ELSE chat_sessions'[i] = chat_sessions[i]

\* A step of the ask in slot k is its next operation, in the order: owner
\* check; history load; on a first message the title generated and stored,
\* then the memory cleared and refilled from the loaded history; the user
\* message stored; the answer invoked and the assistant message stored.
StepInOrder(k) ==
    LET a == inflight[k]
        b == inflight'[k]
    IN  a # b =>
        \/ /\ a.pc = "idle" /\ b.pc = "checked"
           /\ Exists(chat_sessions, b.session_id)
           /\ SessionOf(chat_sessions, b.session_id).user_id = b.user_id
           /\ chat_sessions' = chat_sessions
        \/ /\ a.pc = "checked" /\ b.pc = "loaded"
           /\ b.history = StoredMessages(chat_sessions, a.session_id)
           /\ chat_sessions' = chat_sessions
           /\ memory' = memory
        \/ /\ a.pc = "loaded" /\ b.pc = "replayed"
           /\ MessagesUnchanged
           /\ IF Len(a.history) = 0
              THEN /\ Exists(chat_sessions, a.session_id) =>
                          SessionOf(chat_sessions', a.session_id).title = b.title
                   /\ b.title \in {Strip(Remove(Remove(t, "\""), "'")) : t \in TitleContents}
              ELSE chat_sessions' = chat_sessions
           /\ Len(memory') = Len(a.history)
           /\ \A n \in DOMAIN memory' : memory'[n] = Replayed(a.history[n])
        \/ /\ a.pc = "replayed" /\ b.pc = "asked"
           /\ MessageAdded(a.session_id, "user", a.user_query)
           /\ memory' = memory
           /\ resp' = resp
        \/ /\ a.pc = "asked" /\ b.pc = "idle"
           /\ resp'.status = 200
           /\ resp'.body.session_id = a.session_id
           /\ MessageAdded(a.session_id, "ai", resp'.body.response)
           /\ Len(a.history) = 0 => resp'.body.title = a.title
           /\ IF resp'.body.success
              THEN memory' = memory \o <<[type |-> "human", content |-> a.user_query],
                                         [type |-> "ai", content |-> resp'.body.response]>>
              ELSE memory' = memory

\* The step is the first call of the generation provider made for the ask in
\* slot k: the title generation of a first message, else the agent's answer.
FirstProviderCall(k) ==
    \/ /\ inflight[k].pc = "loaded" /\ inflight'[k].pc = "replayed"
       /\ Len(inflight[k].history) = 0
       /\ title_generator # "None"
    \/ /\ inflight[k].pc = "asked" /\ inflight'[k].pc = "idle"
       /\ Len(inflight[k].history) > 0

\* The step invokes the agent's answer for the ask in slot k.
AnswerInvoked(k) == inflight[k].pc = "asked" /\ inflight'[k].pc = "idle"

\* The ask in slot k has stored its user message.
UserMessageStored(k) == inflight[k].pc = "asked"

\* C28, as the spec states it: the steps of an ask run in the order owner
\* check, history load, title generation and storage (first turn only),
\* memory clear and replay, user message stored, answer invoked, assistant
\* message stored; and the user's message is already stored when the
\* generation provider is first called.
C28_UserMessageStoredBeforeProvider ==
    [][\A k \in DOMAIN inflight :
           /\ StepInOrder(k)
           /\ FirstProviderCall(k) => UserMessageStored(k)]_vars

\* C28, amended: the steps of an ask run in that order, the replayed history
\* being the one loaded before the user message is stored; and the user's
\* message is already stored when the agent's answer is invoked.
C28_UserMessageStoredBeforeAnswer ==
    [][\A k \in DOMAIN inflight :
           /\ StepInOrder(k)
           /\ AnswerInvoked(k) => UserMessageStored(k)]_vars

\* A second turn completed on a session: its replay refilled the memory from
\* the two messages of the first turn and its two messages followed them.
C28_Witness ==
    /\ req.route = "ask_session"
    /\ resp.status = 200
    /\ "title" \notin DOMAIN resp.body
    /\ \A k \in DOMAIN inflight : inflight[k] = Idle
    /\ Len(memory) = 4
    /\ Len(StoredMessages(chat_sessions, resp.body.session_id)) = 4

\* C29: the input the provider is given for a turn contains the agent memory
\* at that time: for the same query, a turn whose replayed history differs
\* from this turn's is given a different provider input.
C29_ProviderInputCarriesMemory ==
    (req.route = "ask_session" /\ probe.route = "ask_session") =>
        \A mem \in {<<>>, memory} :
            mem # probe.memory_at_answer =>
                agent_input(probe.provider_input.input, mem) # probe.provider_input

\* C30: the agent's answer reads and writes no stored session, and after a
\* successful answer the memory is what it was followed by exactly two new
\* entries: the user's query as given, then the answer text as returned.
C30_AnswerExtendsMemoryOnly ==
    /\ \A query \in Queries, run \in SteadyRuns, serper \in SearchOutcomes :
          LET gen == generate_response(memory, query, run, serper)
              out == ask_news_agent(State, [query |-> query],
                                    [i \in 1..MaxIterations |-> "final"],
                                    run.output, serper)
          IN  /\ gen.result.success =>
                    /\ Len(gen.memory) = Len(memory) + 2
                    /\ IsPrefix(memory, gen.memory)
                    /\ gen.memory[Len(memory) + 1] = [type |-> "human", content |-> query]
                    /\ gen.memory[Len(memory) + 2]
                           = [type |-> "ai", content |-> gen.result.response]
              /\ out.st.chat_sessions = chat_sessions
    /\ (req.route = "ask_session" /\ probe.route = "ask_session" /\ resp.body.success) =>
          /\ memory = probe.memory_at_answer
                        \o <<[type |-> "human", content |-> probe.provider_input.input],
                             [type |-> "ai", content |-> resp.body.response]>>
          /\ Len(StoredMessages(chat_sessions, resp.body.session_id))
                 = Len(probe.stored_at_answer) + 1
          /\ IsPrefix(probe.stored_at_answer,
                      StoredMessages(chat_sessions, resp.body.session_id))

\* A second turn was answered: the memory is the replayed first turn followed
\* by the query and the answer of the second.
C30_Witness ==
    /\ req.route = "ask_session"
    /\ probe.route = "ask_session"
    /\ resp.body.success
    /\ Len(probe.memory_at_answer) = 2
    /\ Len(memory) = 4
    /\ memory[3].type = "human"
    /\ memory[4] = [type |-> "ai", content |-> resp.body.response]

\* The rounds a run goes through: up to the first final answer or provider
\* error of the script, all of them when there is none.
RoundsOf(script) ==
    LET ends == {k \in 1..MaxIterations : script[k] \in {"error", "final"}}
    IN  IF ends = {} THEN MaxIterations ELSE CHOOSE k \in ends : \A j \in ends : k <= j

\* C31: whatever the providers do, the agent's answer ends with a result
\* after at most 3 rounds; each round calls the generation provider once and
\* runs the search tool at most once.
C31_AnswerEndsWithinRounds ==
    /\ \A script \in Scripts, answer \in AgentAnswers, serper \in AgentSearchOutcomes,
          query \in Queries :
          LET run == agent_executor_invoke(script, answer)
              gen == generate_response(memory, query, run, serper)
          IN  /\ run.llm_calls = RoundsOf(script)
              /\ run.llm_calls <= 3
              /\ run.tool_calls
                   = Cardinality({k \in 1..RoundsOf(script) : script[k] = "action"})
              /\ run.tool_calls <= run.llm_calls
              /\ gen.result.success \in BOOLEAN
              /\ gen.result.success <=> ~run.raised
              /\ gen.result.response \in AgentAnswers \cup {StoppedOutput, Apology}
    /\ (req.route = "ask" /\ probe.route = "ask") =>
          /\ probe.llm_calls \in 1..3
          /\ probe.tool_calls <= probe.llm_calls
          /\ resp.status = 200
          /\ DOMAIN resp.body \in {{"success", "response", "sources"},
                                   {"success", "response", "error"}}

\* An ask whose provider asked for the tool in every round: three provider
\* calls, three tool runs, and a result.
C31_Witness ==
    /\ req.route = "ask"
    /\ probe.route = "ask"
    /\ probe.llm_calls = 3
    /\ probe.tool_calls = 3
    /\ resp.status = 200
    /\ resp.body.response = StoppedOutput

\* What the Serper request of the answer's trailing search does: results, an
\* empty result list, a reply without results, or a failure.
SourcesOutcomes == SearchOutcomes \cup {[ok |-> TRUE, organic |-> <<>>], [ok |-> TRUE],
                                        [ok |-> FALSE]}

\* C32: the assistant message an ask stores has a sources field exactly when
\* the result has a non-empty sources list, and the field is then the sources
\* list of the response; with an empty or missing sources list it has only
\* its role and content (the timestamp is not modelled).
C32_SourcesStoredWhenPresent ==
    \A sid \in SessionIds, data \in FullAskBodies :
        OwnerAsk(sid, data) =>
            \A llm \in TitleReplies, run \in SteadyRuns, serper \in SourcesOutcomes :
                LET out == ask_session(State, sid, data, llm, run, serper)
                    messages == SessionOf(out.st.chat_sessions, sid).messages
                    stored == messages[Len(messages)]
                    body == out.resp.body
                IN  /\ out.resp.status = 200
                    /\ Len(messages) = Len(SessionOf(chat_sessions, sid).messages) + 2
                    /\ stored.role = "ai"
                    /\ stored.content = body.response
                    /\ IF "sources" \in DOMAIN body /\ body.sources # <<>>
                       THEN /\ DOMAIN stored = {"role", "content", "sources"}
                            /\ stored.sources = body.sources
                       ELSE DOMAIN stored = {"role", "content"}

\* A session holds an answered turn stored with its sources and a failed
\* turn stored without any.
C32_Witness ==
    /\ req.route = "ask_session"
    /\ resp.status = 200
    /\ "sources" \notin DOMAIN resp.body
    /\ LET messages == StoredMessages(chat_sessions, resp.body.session_id)
       IN  /\ Len(messages) = 4
           /\ DOMAIN messages[2] = {"role", "content", "sources"}
           /\ messages[2].sources # <<>>
           /\ messages[4] = [role |-> "ai", content |-> resp.body.response]

\* C33: whatever the interleaving of the requests that arrive before the
\* agent is initialized, at most one agent is constructed, the global agent
\* is assigned once and not replaced afterwards, and the title generator
\* holds the llm of that same agent.
C33_OneSharedAgent ==
    /\ Len(probe.constructed) <= 1
    /\ Len(probe.assigned) <= 1
    /\ title_generator # "None" => probe.generator_llm = news_agent

\* The texts stored as messages of any session.
StoredContents ==
    UNION {{chat_sessions[i].messages[n].content : n \in DOMAIN chat_sessions[i].messages} :
               i \in DOMAIN chat_sessions}

\* C34: message contents of a session are not returned to a caller that
\* gives no owner id: GET /history, which takes no user_id, returns no entry
\* replayed from a session's stored messages or produced by a session's turn.
C34_HistoryRouteShowsNoSession ==
    LET out == get_conversation_history(State)
    IN  out.resp.status = 200 =>
            \A n \in DOMAIN out.resp.body.history :
                out.resp.body.history[n].content \notin StoredContents

\* The tracked query document with an _id, in a list of documents.
TrackedDoc(docs, oid) == docs[FindTrackedById(docs, oid)]
TrackedStored(docs, oid) == FindTrackedById(docs, oid) # 0

\* A history has no previous summary: it is empty or its last entry's
\* summary is empty.
NoPreviousSummary(history) ==
    history = <<>> \/ history[Len(history)].summary = ""

\* What a step does to the tracking histories.  An update answered 200 adds
\* one entry at the end of the history of the query it names, keeping the
\* earlier ones, its changes None when there was no previous summary; a
\* create inserts a document whose one entry has changes None; a delete
\* leaves the documents it keeps as they were; any other request keeps every
\* document and every history.
C35_HistoryStep ==
    LET docs == tracked_queries.docs
        after == tracked_queries'.docs
        updated == req'.route = "update_tracked_query" /\ resp'.status = 200
    IN  /\ \A i \in DOMAIN docs :
               LET oid == docs[i]._id
               IN  IF req'.route = "delete_tracked_query" /\ ~TrackedStored(after, oid)
                   THEN resp'.status = 200
                   ELSE /\ TrackedStored(after, oid)
                        /\ TrackedDoc(after, oid).query = docs[i].query
                        /\ TrackedDoc(after, oid).user_id = docs[i].user_id
                        /\ LET old == docs[i].tracking_history
                               new == TrackedDoc(after, oid).tracking_history
                           IN  IF updated /\ resp'.body.tracked_query_id = oid
                               THEN /\ Len(new) = Len(old) + 1
                                    /\ IsPrefix(old, new)
                                    /\ new[Len(new)].summary = resp'.body.summary
                                    /\ NoPreviousSummary(old) => new[Len(new)].changes = NoneArg
                                    /\ ~NoPreviousSummary(old) =>
                                          /\ new[Len(new)].changes # NoneArg
                                          /\ new[Len(new)].changes[1].removed
                                                \in {NoneArg, Some(old[Len(old)].summary)}
                               ELSE new = old
        /\ \A j \in DOMAIN after :
               ~TrackedStored(docs, after[j]._id) =>
                   /\ req'.route = "create_tracked_query"
                   /\ Len(after[j].tracking_history) = 1
                   /\ after[j].tracking_history[1].changes = NoneArg
        /\ updated => TrackedStored(docs, resp'.body.tracked_query_id)

\* C35: the tracking history of a tracked query is append-only.  Each update
\* by the owner appends exactly one entry at the end and leaves the earlier
\* entries as they were and where they were; the entry's changes are null
\* when there was no previous summary; and no request other than the delete
\* of the whole record removes or edits a history entry.
C35_TrackingHistoryAppendOnly == [][C35_HistoryStep]_vars

\* An update appended a second entry to a history whose first summary was
\* empty: the new entry has no changes.
C35_Witness ==
    /\ req.route = "update_tracked_query"
    /\ resp.status = 200
    /\ LET history == TrackedDoc(tracked_queries.docs,
                                 resp.body.tracked_query_id).tracking_history
       IN  /\ Len(history) = 2
           /\ history[1].summary = ""
           /\ history[2].summary = resp.body.summary
           /\ history[2].summary # ""
           /\ history[2].changes = NoneArg

\* The answer of the tracked-query routes to a caller who does not own the
\* record they name.
Unauthorized(outcome, tq) ==
    /\ outcome.resp.status = 404
    /\ outcome.resp.body.error = "Tracked query not found or unauthorized access"
    /\ outcome.tq = tq

\* C36: tracked queries are user-owned.  Delete, update and toggle-status of
\* a stored tracked query with a user id other than the one stored in the
\* record answer 404 "Tracked query not found or unauthorized access" and
\* leave the collection, so the record's query, flag and history, as it was;
\* the list for a user holds exactly the records stored for that user.
C36_TrackedQueriesUserOwned ==
    LET tq == tracked_queries
    IN  /\ \A i \in DOMAIN tq.docs, user_id \in CallerIds :
               (user_id # "" /\ user_id # tq.docs[i].user_id) =>
                   LET data == [user_id |-> user_id]
                       oid == tq.docs[i]._id
                   IN  /\ Unauthorized(delete_tracked_query(State, tq, oid, data), tq)
                       /\ \A run \in TrackedRuns, serper \in SearchOutcomes :
                              Unauthorized(update_tracked_query(State, tq, oid, data,
                                                                run, serper), tq)
                       /\ \A body \in ToggleBodies :
                              (Get(body, "user_id") = Some(user_id)) =>
                                  Unauthorized(toggle_tracked_query_status(State, tq, oid,
                                                                           body), tq)
        /\ \A user_id \in CallerIds \ {""} :
               LET listed == get_tracked_queries(State, tq, [user_id |-> user_id])
                                 .resp.body.tracked_queries
               IN  /\ \A n \in DOMAIN listed :
                          /\ TrackedStored(tq.docs, listed[n]._id)
                          /\ TrackedDoc(tq.docs, listed[n]._id).user_id = user_id
                   /\ \A i \in DOMAIN tq.docs :
                          tq.docs[i].user_id = user_id =>
                              \E n \in DOMAIN listed : listed[n]._id = tq.docs[i]._id

\* Every id that can be asked for names a stored record, records of both
\* users are stored, and the last request was refused as unauthorized: it
\* named a record of the other user.
C36_Witness ==
    /\ req.route \in {"delete_tracked_query", "update_tracked_query",
                      "toggle_tracked_query_status"}
    /\ resp.status = 404
    /\ resp.body.error = "Tracked query not found or unauthorized access"
    /\ \A oid \in TrackedIds : ValidObjectId(oid) => TrackedStored(tracked_queries.docs, oid)
    /\ \E i, j \in DOMAIN tracked_queries.docs :
           /\ tracked_queries.docs[i].user_id = "A"
           /\ tracked_queries.docs[j].user_id = "B"

\* A tracked query document but for its active flag.
ButActive(doc) == [doc EXCEPT !.is_active = TRUE]

\* One toggle-status request of the owner of the i-th record, with the body
\* `data`: it is answered 200 with the flag that is then stored, which is
\* `expected`, and nothing else in the collection changes.
ToggleSets(tq, i, data, expected) ==
    LET outcome == toggle_tracked_query_status(State, tq, tq.docs[i]._id, data)
    IN  /\ outcome.resp.status = 200
        /\ outcome.resp.body.is_active = expected
        /\ Len(outcome.tq.docs) = Len(tq.docs)
        /\ outcome.tq.docs[i].is_active = expected
        /\ outcome.tq.docs[i].query = tq.docs[i].query
        /\ outcome.tq.docs[i].tracking_history = tq.docs[i].tracking_history
        /\ ButActive(outcome.tq.docs[i]) = ButActive(tq.docs[i])
        /\ \A j \in DOMAIN tq.docs : j # i => outcome.tq.docs[j] = tq.docs[j]

\* C37: toggle-status by the owner stores the given is_active when the body
\* has one and the negation of the stored flag when it has none, and returns
\* the flag it stored; two toggles in a row without is_active give back the
\* original flag; the query text and the tracking history stay as they were.
C37_ToggleSetsOrNegates ==
    LET tq == tracked_queries
    IN  \A i \in DOMAIN tq.docs :
            LET owner == [user_id |-> tq.docs[i].user_id]
                once == toggle_tracked_query_status(State, tq, tq.docs[i]._id, owner)
                twice == toggle_tracked_query_status(once.st, once.tq, tq.docs[i]._id, owner)
            IN  /\ \A b \in BOOLEAN :
                       ToggleSets(tq, i, [user_id |-> owner.user_id, is_active |-> b], b)
                /\ ToggleSets(tq, i, owner, ~tq.docs[i].is_active)
                /\ ToggleSets(once.tq, i, owner, tq.docs[i].is_active)
                /\ twice.resp.status = 200
                /\ twice.tq.docs = tq.docs

\* A toggle was answered with a deactivated flag for a stored record that
\* has a tracking history.
C37_Witness ==
    /\ req.route = "toggle_tracked_query_status"
    /\ resp.status = 200
    /\ ~resp.body.is_active
    /\ TrackedStored(tracked_queries.docs, resp.body.tracked_query_id)
    /\ LET doc == TrackedDoc(tracked_queries.docs, resp.body.tracked_query_id)
       IN  /\ ~doc.is_active
           /\ Len(doc.tracking_history) = 2

\* C38: after any register requests, two served at the same time with one
\* email among them, the users collection holds at most one record for an
\* email.
C38_OneUserPerEmail ==
    \A i, j \in DOMAIN users : users[i].email = users[j].email => i = j

====
